---- MODULE Spec2Model ----
(***************************************************************************)
(* A model of brightpanda's change cache (src/src/core/cache.c): a hash    *)
(* table of CacheNode chains threaded by an intrusive LRU list, with       *)
(* eviction by entry count and byte budget and a binary snapshot file.     *)
(***************************************************************************)
EXTENDS Integers, Sequences, FiniteSets, TLC

(***************************************************************************)
(* Bounds of the model.                                                    *)
(***************************************************************************)
\* CacheNode structs the heap can hold at once.
MaxNodes == 4
\* API calls in one behaviour, and changes the environment makes to the
\* files, to the snapshot and to the clock: of Spec, of SpecLRU and of
\* SpecSnap.
MaxCalls == 3
MaxEnv == 1
LruCalls == 4
LruEnv == 1
SnapCalls == 5
SnapEnv == 1
\* The largest max_entries SpecLRU starts with.
MaxLimit == 2

(***************************************************************************)
(* Program constants.                                                      *)
(***************************************************************************)
CACHE_VERSION == 1
DEFAULT_MAX_ENTRIES == 50000
DEFAULT_MAX_BYTES == 50 * 1024 * 1024
HASH_TABLE_SIZE == 8192
\* sizeof(CacheEntry) on an LP64 build: char* 8, time_t 8, uint32_t 4 (+4
\* padding), size_t 8, time_t 8.
SizeofCacheEntry == 40
\* The size cap of cache_update_file, 10 * 1024 * 1024.
MaxFileSize == 10 * 1024 * 1024
\* uint16_t path_len wraps at this value.
U16 == 65536
NULL == 0

(***************************************************************************)
(* 32-bit words as sequences of 32 bits, least significant first (TLC's    *)
(* integers are 32-bit signed, so a uint32_t is kept as its bits).         *)
(***************************************************************************)
RECURSIVE BitsOf(_, _)
BitsOf(v, n) == IF n = 0 THEN <<>> ELSE <<v % 2>> \o BitsOf(v \div 2, n - 1)

RECURSIVE ValOf(_)
ValOf(bits) == IF bits = <<>> THEN 0 ELSE bits[1] + 2 * ValOf(Tail(bits))

Xor32(a, b) == [i \in 1..32 |-> (a[i] + b[i]) % 2]
Shr1(a) == [i \in 1..32 |-> IF i = 32 THEN 0 ELSE a[i + 1]]
Not32(a) == [i \in 1..32 |-> 1 - a[i]]
\* 0xEDB88320 = 0xEDB8 * 2^16 + 0x8320
Poly == BitsOf(33568, 16) \o BitsOf(60856, 16)
Ones32 == [i \in 1..32 |-> 1]
Zero32 == [i \in 1..32 |-> 0]

\* One round of the inner loop: crc = (crc >> 1) ^ (0xEDB88320 & -(crc & 1)).
crc_round(crc) == Xor32(Shr1(crc), IF crc[1] = 1 THEN Poly ELSE Zero32)

RECURSIVE crc_rounds(_, _)
crc_rounds(crc, j) == IF j = 0 THEN crc ELSE crc_rounds(crc_round(crc), j - 1)

RECURSIVE crc_bytes(_, _)
crc_bytes(crc, data) ==
    IF data = <<>> THEN crc
    ELSE crc_bytes(crc_rounds(Xor32(crc, BitsOf(data[1], 32)), 8), Tail(data))

\* crc32 of a byte sequence, as the pair <<high 16 bits, low 16 bits>>.
crc32(data) ==
    LET r == Not32(crc_bytes(Ones32, data))
    IN <<ValOf(SubSeq(r, 17, 32)), ValOf(SubSeq(r, 1, 16))>>

\* hash_filepath: djb2 over the path's bytes, reduced to a bucket index.
\* HASH_TABLE_SIZE divides 2^32, so reducing modulo HASH_TABLE_SIZE at every
\* step gives the same bucket as the uint32_t arithmetic followed by
\* % HASH_TABLE_SIZE.
RECURSIVE djb2(_, _)
djb2(hash, path) ==
    IF path = <<>> THEN hash
    ELSE djb2((hash * 33 + path[1]) % HASH_TABLE_SIZE, Tail(path))

hash_filepath(path) == djb2(5381 % HASH_TABLE_SIZE, path) % HASH_TABLE_SIZE

(***************************************************************************)
(* The paths and files of the model.  "az" and "bY" fall into the same     *)
(* bucket (the classic djb2 collision), "c" into another.                  *)
(***************************************************************************)
PathAZ == <<97, 122>>
PathBY == <<98, 89>>
PathC == <<99>>
Paths == {PathAZ, PathBY, PathC}
NoPath == <<0>>

Buckets == {hash_filepath(p) : p \in Paths}

\* A file as stat and fopen see it.  data abbreviates the content of the two
\* large files, whose size is what matters.
File(e, r, m, s, d) ==
    [exists |-> e, readable |-> r, mtime |-> m, size |-> s, data |-> d]
Absent == File(FALSE, FALSE, 0, 0, <<>>)
FileBase == File(TRUE, TRUE, 3, 1, <<97>>)
FileStates ==
    { Absent,
      FileBase,
      File(TRUE, TRUE, 4, 1, <<97>>),
      File(TRUE, TRUE, 3, 2, <<97, 98>>),
      File(TRUE, TRUE, 3, 1, <<98>>),
      File(TRUE, TRUE, 3, 0, <<>>),
      File(TRUE, FALSE, 3, 1, <<97>>),
      File(TRUE, TRUE, 3, MaxFileSize, <<97>>),
      File(TRUE, TRUE, 3, MaxFileSize + 1, <<97>>) }
\* The files as a behaviour starts.
FirstFiles ==
    (PathAZ :> FileBase) @@ (PathBY :> File(TRUE, TRUE, 4, 2, <<97, 98>>))
    @@ (PathC :> File(TRUE, TRUE, 3, 1, <<98>>))

Contents == {f.data : f \in FileStates}
CrcTable == [d \in Contents |-> crc32(d)]

(***************************************************************************)
(* The heap of CacheNode structs and the CacheManager.                     *)
(***************************************************************************)
NodeIds == 1..MaxNodes

CacheNode(p, m, h, s, a) ==
    [filepath |-> p, mtime |-> m, hash |-> h, size |-> s, last_accessed |-> a,
     next |-> NULL, lru_prev |-> NULL, lru_next |-> NULL]
FreeNode == CacheNode(<<>>, 0, <<0, 0>>, 0, 0)

VARIABLES
    cache,      \* the CacheManager and the CacheNodes it owns
    fs,         \* the source files: path -> what stat/fopen/fread give
    disk,       \* the snapshot file named by cache->cache_file
    now,        \* the clock read by time(NULL)
    hung,       \* an eviction loop spins without making progress
    last,       \* the last API call: its name, path argument and result
    modified,   \* last.path's stat data changed since the last API call
    saved,      \* what the last cache_manager_save wrote from, if the
                \* snapshot is still as written
    recency,    \* paths by last touch (update ok, or lookup that stats)
    recencyAny, \* paths by last touch, counting every lookup of a cached path
    track,      \* whether recency and recencyAny are kept
    calls,      \* API calls the behaviour may still make
    envs,       \* changes the environment may still make
    unread      \* the file the environment changed that no call has read yet

\* The aggregate of a scan: the three lists of a Manifest (manifest.h:20-22),
\* which are also the g_services, g_endpoints and g_edges of main.c.
VARIABLES
    manifest,   \* the service, endpoint and edge lists, slots below count
    freed,      \* the entities service_free, endpoint_free, edge_free released
    nextId,     \* the address the next allocated entity gets
    mlast,      \* the last operation on the aggregate, with its input
    mcalls      \* operations on the aggregate the behaviour may still make

cacheVars == <<cache, fs, disk, now, hung, last, modified, saved, recency,
               recencyAny, track, calls, envs, unread>>
\* A walk of a directory tree (src/src/core/walker.c).
VARIABLES
    wstate,     \* "idle", "walking", or "returned" once walker_walk is back
    wret,       \* what walker_walk returned
    wconfig,    \* the WalkerConfig of the walk
    wenv,       \* the directories opendir fails on, the entries lstat fails on
    wstack,     \* the walk_recursive frames: directory, depth, entries to read
    g_stats,    \* the WalkerStats of the walk
    visited,    \* the paths passed to the callback, in order
    opened,     \* the paths opendir opened, in order
    wlast       \* the last step of the walk

\* The parser pool (src/src/core/parser_pool.c).
VARIABLES
    pool_state, \* the static pool_state
    abi_ok,     \* whether ts_parser_set_language accepts the Python grammar
    pheld,      \* the parsers callers hold: acquired and not yet released
    nextParser, \* the address the next ts_parser_new returns
    plast,      \* the last call on the pool, with its input and result
    pcalls,     \* calls on the pool the behaviour may still make
    threads     \* where each thread is in its call on the pool

\* The plugin registry (src/src/lang/registry.c).
VARIABLES
    g_registry, \* the static g_registry: the plugins array and count
    inited,     \* the plugins whose init has returned true
    rlast,      \* the last call on the registry, with its input and result
    rcalls      \* calls on the registry the behaviour may still make

\* Edges outside any list (src/src/core/entity.c).
VARIABLES
    elist,      \* the edges made so far, in order
    elast,      \* the last call on an edge, with its input
    ecalls      \* calls on edges the behaviour may still make

\* Calls of functions that keep no state: the extraction from query matches
\* (src/src/lang/python/plugin.c, src/src/core/extractor.c) and the matching
\* of names (src/src/util/path.c).
VARIABLES
    xlast       \* the call of the behaviour, with its input and result

manifestVars == <<manifest, freed, nextId, mlast, mcalls>>
functionVars == <<xlast>>
edgeVars == <<elist, elast, ecalls>>
registryVars == <<g_registry, inited, rlast, rcalls>>
poolVars == <<pool_state, abi_ok, pheld, nextParser, plast, pcalls, threads>>
walkerVars == <<wstate, wret, wconfig, wenv, wstack, g_stats, visited, opened,
                wlast>>
\* What the cache and its environment never touch.
nonCache == <<manifestVars, walkerVars, poolVars, registryVars,
    edgeVars, functionVars>>
\* What the operations on the aggregate never touch.
nonManifest == <<cacheVars, walkerVars, poolVars, registryVars,
    edgeVars, functionVars>>
\* What a walk never touches.
nonWalker == <<cacheVars, manifestVars, poolVars, registryVars,
    edgeVars, functionVars>>
\* What the calls on the parser pool never touch.
nonPool == <<cacheVars, manifestVars, walkerVars, registryVars,
    edgeVars, functionVars>>
\* What the calls on the plugin registry never touch.
nonRegistry == <<cacheVars, manifestVars, walkerVars, poolVars, edgeVars,
    functionVars>>
\* What the calls on single edges never touch.
nonEdge == <<cacheVars, manifestVars, walkerVars, poolVars, registryVars,
    functionVars>>
\* What the calls of functions without state never touch.
nonFunction == <<cacheVars, manifestVars, walkerVars, poolVars, registryVars,
          edgeVars >>
vars == <<cacheVars, manifestVars, walkerVars, poolVars, registryVars,
          edgeVars, functionVars>>

\* #define MAX_PARSERS 8.
MAX_PARSERS == 8
\* The threads that call the pool.
Threads == {"t1", "t2"}
\* static struct { ... } pool_state = {0}.
ZeroPool ==
    [parsers |-> [i \in 0..(MAX_PARSERS - 1) |-> 0],
     in_use |-> [i \in 0..(MAX_PARSERS - 1) |-> FALSE],
     language |-> FALSE, count |-> 0, initialized |-> FALSE]
NoPoolCall ==
    [op |-> "none", language |-> "", parser |-> 0, ret |-> 0, ok |-> TRUE,
     made |-> 0]
NotCalling == [pc |-> "idle", i |-> 0, arg |-> 0, holds |-> {}]
\* The pool before any call, with ncalls calls to come.
PoolStart(ncalls) ==
    /\ pool_state = ZeroPool
    /\ pheld = {}
    /\ nextParser = 1
    /\ plast = NoPoolCall
    /\ pcalls = ncalls
    /\ threads = [t \in Threads |-> NotCalling]
PoolIdle ==
    /\ PoolStart(0)
    /\ abi_ok = TRUE
\* #define MAX_PLUGINS 16.
MAX_PLUGINS == 16
\* static struct { ... } g_registry = {0}.
ZeroRegistry ==
    [plugins |-> [i \in 0..(MAX_PLUGINS - 1) |-> 0], count |-> 0,
     initialized |-> FALSE]
NoRegistryCall ==
    [op |-> "none", plugin |-> 0, arg |-> <<>>, ret |-> 0, init |-> "none"]
RegistryIdle ==
    /\ g_registry = ZeroRegistry
    /\ inited = {}
    /\ rlast = NoRegistryCall
    /\ rcalls = 0
NoEdgeCall == [op |-> "none", edge |-> 0, confidence |-> 0]
EdgeIdle ==
    /\ elist = <<>>
    /\ elast = NoEdgeCall
    /\ ecalls = 0
NoFunctionCall == [op |-> "none"]
FunctionIdle == xlast = NoFunctionCall
\* A behaviour of the functions without state is one call.
NotCalled == xlast = NoFunctionCall
\* No component besides the cache, the aggregate and the walker is in use.
RestIdle ==
    /\ PoolIdle
    /\ RegistryIdle
    /\ EdgeIdle
    /\ FunctionIdle

\* walker_config_default.
walker_config_default ==
    [follow_symlinks |-> FALSE, respect_gitignore |-> TRUE, max_depth |-> 0,
     extensions |-> <<>>]
\* static WalkerStats g_stats = {0}.
ZeroStats ==
    [files_scanned |-> 0, files_matched |-> 0, files_ignored |-> 0,
     directories_visited |-> 0, errors |-> 0]
NoStep == [step |-> "none", path |-> <<>>, node |-> 0, depth |-> 0]
\* No walk has started.
WalkerIdle ==
    /\ wstate = "idle"
    /\ wret = FALSE
    /\ wconfig = walker_config_default
    /\ wenv = [noopen |-> {}, nolstat |-> {}]
    /\ wstack = <<>>
    /\ g_stats = ZeroStats
    /\ visited = <<>>
    /\ opened = <<>>
    /\ wlast = NoStep

\* service_list_create, endpoint_list_create, edge_list_create: count = 0.
EmptyLists == [services |-> <<>>, endpoints |-> <<>>, edges |-> <<>>]
\* An operation's record: its name, its path argument, the ParseResult it
\* merged, what it returned, the lists before it and what it released.
MOp(op, filepath, result, ret, before, released) ==
    [op |-> op, filepath |-> filepath, result |-> result, ret |-> ret,
     before |-> before, released |-> released]
NoOp == MOp("create", <<>>, <<>>, TRUE, EmptyLists, {})
\* The aggregate as created, with ncalls operations to come.
ManifestStart(ncalls) ==
    /\ manifest = EmptyLists
    /\ freed = {}
    /\ nextId = 1
    /\ mlast = NoOp
    /\ mcalls = ncalls

\* cache_manager_create: calloc'ed struct with the default limits.
cache_manager_create ==
    [hash_table |-> [b \in Buckets |-> NULL],
     node |-> [n \in NodeIds |-> FreeNode],
     alloc |-> {},
     entry_count |-> 0, total_bytes |-> 0, hits |-> 0, misses |-> 0,
     lru_head |-> NULL, lru_tail |-> NULL,
     max_entries |-> DEFAULT_MAX_ENTRIES, max_bytes |-> DEFAULT_MAX_BYTES]

\* strlen(filepath): the bytes before the first NUL.
RECURSIVE strlen(_)
strlen(path) ==
    IF path = <<>> \/ path[1] = 0 THEN 0 ELSE 1 + strlen(Tail(path))

Footprint(path) == SizeofCacheEntry + strlen(path)

\* calloc(1, sizeof(CacheNode)): the lowest free slot of the heap.
Calloc(c) == CHOOSE n \in NodeIds \ c.alloc : \A m \in NodeIds \ c.alloc : n <= m
HeapFull(c) == c.alloc = NodeIds

\* The unlinking both lru_touch and lru_remove start with.
lru_unlink(node, n) ==
    LET p == node[n].lru_prev
        x == node[n].lru_next
        a == IF p # NULL THEN [node EXCEPT ![p].lru_next = x] ELSE node
    IN IF x # NULL THEN [a EXCEPT ![x].lru_prev = p] ELSE a

\* lru_touch as it would be if a node were never moved.
lru_touch_none(c, n) == c

lru_touch(c, n) ==
    IF n = NULL \/ n = c.lru_head THEN c
    ELSE LET a == lru_unlink(c.node, n)
             tail1 == IF n = c.lru_tail THEN c.node[n].lru_prev ELSE c.lru_tail
             b == [a EXCEPT ![n].lru_prev = NULL, ![n].lru_next = c.lru_head]
             d == IF c.lru_head # NULL
                  THEN [b EXCEPT ![c.lru_head].lru_prev = n] ELSE b
         IN [c EXCEPT !.node = d, !.lru_head = n,
                      !.lru_tail = IF tail1 = NULL THEN n ELSE tail1]

lru_remove(c, n) ==
    IF n = NULL THEN c
    ELSE LET a == lru_unlink(c.node, n)
         IN [c EXCEPT
               !.node = [a EXCEPT ![n].lru_prev = NULL, ![n].lru_next = NULL],
               !.lru_head = IF n = c.lru_head THEN c.node[n].lru_next ELSE @,
               !.lru_tail = IF n = c.lru_tail THEN c.node[n].lru_prev ELSE @]

\* The walk "while (*indirect && *indirect != victim)" of cache_evict_lru:
\* the node whose next field is *indirect, NULL for the bucket head itself.
RECURSIVE chain_pred(_, _, _, _)
chain_pred(c, q, cur, victim) ==
    IF cur = NULL \/ cur = victim THEN q
    ELSE chain_pred(c, cur, c.node[cur].next, victim)

\* chain_unlink as it would be if only a victim at the bucket head were
\* unlinked.
chain_unlink_head_only(c, victim) ==
    LET bucket == hash_filepath(c.node[victim].filepath)
    IN IF c.hash_table[bucket] = victim
       THEN [c EXCEPT !.hash_table[bucket] = c.node[victim].next]
       ELSE c

chain_unlink(c, victim) ==
    LET bucket == hash_filepath(c.node[victim].filepath)
        q == chain_pred(c, NULL, c.hash_table[bucket], victim)
        at == IF q = NULL THEN c.hash_table[bucket] ELSE c.node[q].next
    IN IF at = NULL THEN c
       ELSE IF q = NULL
            THEN [c EXCEPT !.hash_table[bucket] = c.node[victim].next]
            ELSE [c EXCEPT !.node[q].next = c.node[victim].next]

cache_evict_lru(c) ==
    IF c.lru_tail = NULL THEN c
    ELSE LET victim == c.lru_tail
             c1 == lru_remove(chain_unlink(c, victim), victim)
         IN [c1 EXCEPT
               !.entry_count = @ - 1,
               !.total_bytes = @ - Footprint(c.node[victim].filepath),
               !.node[victim] = FreeNode,
               !.alloc = @ \ {victim}]

OverCount(c) == c.max_entries > 0 /\ c.entry_count > c.max_entries
OverBytes(c) == c.max_bytes > 0 /\ c.total_bytes > c.max_bytes

\* The two while loops of cache_enforce_limits.  An iteration that finds the
\* list empty changes nothing, so the loop would run forever: the recursion
\* stops there and Spins reports it.
RECURSIVE evict_by_count(_)
evict_by_count(c) ==
    IF OverCount(c) /\ c.lru_tail # NULL
    THEN evict_by_count(cache_evict_lru(c)) ELSE c

RECURSIVE evict_by_bytes(_)
evict_by_bytes(c) ==
    IF OverBytes(c) /\ c.lru_tail # NULL
    THEN evict_by_bytes(cache_evict_lru(c)) ELSE c

cache_enforce_limits(c) == evict_by_bytes(evict_by_count(c))

Spins(c) ==
    \/ OverCount(evict_by_count(c))
    \/ OverBytes(cache_enforce_limits(c))

\* The bucket walk of cache_is_file_changed and cache_update_file: the first
\* node of the chain whose filepath equals the path, or NULL.
RECURSIVE chain_find(_, _, _)
chain_find(c, n, path) ==
    IF n = NULL THEN NULL
    ELSE IF c.node[n].filepath = path THEN n
    ELSE chain_find(c, c.node[n].next, path)

lookup(c, path) == chain_find(c, c.hash_table[hash_filepath(path)], path)

\* cache_set_limits as it would be if the new limits were only stored.
cache_set_limits_lazy(c, max_entries, max_bytes) ==
    [c EXCEPT !.max_entries = max_entries, !.max_bytes = max_bytes]

cache_set_limits(c, max_entries, max_bytes) ==
    cache_enforce_limits(
        [c EXCEPT !.max_entries = max_entries, !.max_bytes = max_bytes])

\* cache_is_file_changed as it would be if only the mtime were compared.
cache_is_file_changed_mtime_only(c, path, st, t) ==
    IF ~st.exists THEN [c |-> c, ret |-> TRUE]
    ELSE LET n == lookup(c, path) IN
         IF n = NULL
         THEN [c |-> [c EXCEPT !.misses = @ + 1], ret |-> TRUE]
         ELSE LET c1 == lru_touch([c EXCEPT !.node[n].last_accessed = t], n)
              IN IF c.node[n].mtime = st.mtime
                 THEN [c |-> [c1 EXCEPT !.hits = @ + 1], ret |-> FALSE]
                 ELSE [c |-> [c1 EXCEPT !.misses = @ + 1], ret |-> TRUE]

\* cache_is_file_changed as it would be if a modified file's new mtime and
\* size were stored in its entry.
cache_is_file_changed_refreshing(c, path, st, t) ==
    IF ~st.exists THEN [c |-> c, ret |-> TRUE]
    ELSE LET n == lookup(c, path) IN
         IF n = NULL
         THEN [c |-> [c EXCEPT !.misses = @ + 1], ret |-> TRUE]
         ELSE LET c1 == lru_touch([c EXCEPT !.node[n].last_accessed = t], n)
              IN IF c.node[n].mtime = st.mtime /\ c.node[n].size = st.size
                 THEN [c |-> [c1 EXCEPT !.hits = @ + 1], ret |-> FALSE]
                 ELSE [c |-> [c1 EXCEPT !.misses = @ + 1,
                                        !.node[n].mtime = st.mtime,
                                        !.node[n].size = st.size],
                       ret |-> TRUE]

\* cache_is_file_changed on a file whose stat gives st, at time t: the cache
\* afterwards and the value returned.
cache_is_file_changed(c, path, st, t) ==
    IF ~st.exists THEN [c |-> c, ret |-> TRUE]
    ELSE LET n == lookup(c, path) IN
         IF n = NULL
         THEN [c |-> [c EXCEPT !.misses = @ + 1], ret |-> TRUE]
         ELSE LET c1 == lru_touch([c EXCEPT !.node[n].last_accessed = t], n)
              IN IF c.node[n].mtime = st.mtime /\ c.node[n].size = st.size
                 THEN [c |-> [c1 EXCEPT !.hits = @ + 1], ret |-> FALSE]
                 ELSE [c |-> [c1 EXCEPT !.misses = @ + 1], ret |-> TRUE]

\* The new entry of cache_update_file linked at the bucket head and at the
\* LRU head.
insert_head(c, n, entry) ==
    LET bucket == hash_filepath(entry.filepath)
        a == [c.node EXCEPT ![n] = [entry EXCEPT !.next = c.hash_table[bucket],
                                                !.lru_next = c.lru_head]]
        b == IF c.lru_head # NULL
             THEN [a EXCEPT ![c.lru_head].lru_prev = n] ELSE a
    IN [c EXCEPT !.node = b,
                 !.alloc = @ \cup {n},
                 !.hash_table[bucket] = n,
                 !.lru_head = n,
                 !.lru_tail = IF @ = NULL THEN n ELSE @,
                 !.entry_count = @ + 1,
                 !.total_bytes = @ + Footprint(entry.filepath)]

\* cache_update_file as it would be without the size cap: the fingerprint
\* is taken over what was read.
cache_update_file_nocap(c, path, st, t, mallocOk) ==
    IF ~st.exists \/ ~st.readable \/ ~mallocOk
    THEN [c |-> c, ret |-> FALSE]
    ELSE LET hash == CrcTable[st.data]
             n == lookup(c, path)
         IN IF n # NULL
            THEN [c |-> lru_touch([c EXCEPT !.node[n].mtime = st.mtime,
                                            !.node[n].hash = hash,
                                            !.node[n].size = st.size,
                                            !.node[n].last_accessed = t], n),
                  ret |-> TRUE]
            ELSE [c |-> cache_enforce_limits(
                            insert_head(c, Calloc(c),
                                CacheNode(path, st.mtime, hash, st.size, t))),
                  ret |-> TRUE]

\* cache_update_file on a file whose stat/fopen/fread give st, at time t;
\* mallocOk is whether malloc(size) returned a buffer.
cache_update_file(c, path, st, t, mallocOk) ==
    IF ~st.exists \/ ~st.readable \/ st.size > MaxFileSize \/ ~mallocOk
    THEN [c |-> c, ret |-> FALSE]
    ELSE LET hash == CrcTable[st.data]
             n == lookup(c, path)
         IN IF n # NULL
            THEN [c |-> lru_touch([c EXCEPT !.node[n].mtime = st.mtime,
                                            !.node[n].hash = hash,
                                            !.node[n].size = st.size,
                                            !.node[n].last_accessed = t], n),
                  ret |-> TRUE]
            ELSE [c |-> cache_enforce_limits(
                            insert_head(c, Calloc(c),
                                CacheNode(path, st.mtime, hash, st.size, t))),
                  ret |-> TRUE]

\* Whether the limits loop entered by that call spins.
update_spins(c, path, st, t, mallocOk) ==
    /\ st.exists /\ st.readable /\ st.size <= MaxFileSize /\ mallocOk
    /\ lookup(c, path) = NULL
    /\ Spins(insert_head(c, Calloc(c),
                 CacheNode(path, st.mtime, CrcTable[st.data], st.size, t)))

\* cache_clear without its last two assignments.
cache_clear_keeps_stats(c) ==
    [c EXCEPT !.hash_table = [b \in Buckets |-> NULL],
              !.node = [n \in NodeIds |-> FreeNode],
              !.alloc = {},
              !.lru_head = NULL, !.lru_tail = NULL,
              !.entry_count = 0, !.total_bytes = 0]

cache_clear(c) ==
    [c EXCEPT !.hash_table = [b \in Buckets |-> NULL],
              !.node = [n \in NodeIds |-> FreeNode],
              !.alloc = {},
              !.lru_head = NULL, !.lru_tail = NULL,
              !.entry_count = 0, !.total_bytes = 0,
              !.hits = 0, !.misses = 0]

(***************************************************************************)
(* The snapshot file, as the sequence of fields fwrite produced: each      *)
(* field is the sequence of its values (a path its bytes, the fingerprint  *)
(* its two halves, any other field its one number).  A file that ends      *)
(* inside a fixed-size field lacks that field (fread of one item fails     *)
(* either way); a file that ends inside a path holds the path's prefix.    *)
(***************************************************************************)
NoFile == [exists |-> FALSE, fields |-> <<>>]

RECURSIVE SortedSeq(_)
SortedSeq(S) ==
    IF S = {} THEN <<>>
    ELSE LET m == CHOOSE x \in S : \A y \in S : x <= y
         IN <<m>> \o SortedSeq(S \ {m})

\* The six fwrite calls of cache_manager_save for one node.
entry_fields(e) ==
    LET path_len == strlen(e.filepath) % U16
    IN << <<path_len>>, SubSeq(e.filepath, 1, path_len), <<e.mtime>>, e.hash,
          <<e.size>>, <<e.last_accessed>> >>

\* chain_fields as it would be if the loop did not advance to node->next.
chain_fields_head_only(c, n) ==
    IF n = NULL THEN <<>> ELSE entry_fields(c.node[n])

\* The inner while loop of cache_manager_save over one bucket's chain.
RECURSIVE chain_fields(_, _)
chain_fields(c, n) ==
    IF n = NULL THEN <<>>
    ELSE entry_fields(c.node[n]) \o chain_fields(c, c.node[n].next)

\* The outer for loop, over the buckets by increasing index.
RECURSIVE buckets_fields(_, _)
buckets_fields(c, bs) ==
    IF bs = <<>> THEN <<>>
    ELSE chain_fields(c, c.hash_table[bs[1]]) \o buckets_fields(c, Tail(bs))

\* cache_manager_save: the file written when fopen succeeds.
cache_manager_save(c) ==
    [exists |-> TRUE,
     fields |-> << <<CACHE_VERSION>>, <<c.entry_count>> >>
                \o buckets_fields(c, SortedSeq(Buckets))]

\* The node cache_manager_load links at the bucket head and at the LRU tail.
append_tail(c, n, entry) ==
    LET bucket == hash_filepath(entry.filepath)
        a == [c.node EXCEPT ![n] = [entry EXCEPT !.next = c.hash_table[bucket],
                                                !.lru_prev = c.lru_tail]]
        b == IF c.lru_tail # NULL
             THEN [a EXCEPT ![c.lru_tail].lru_next = n] ELSE a
    IN [c EXCEPT !.node = b,
                 !.alloc = @ \cup {n},
                 !.hash_table[bucket] = n,
                 !.lru_head = IF c.lru_tail # NULL THEN @ ELSE n,
                 !.lru_tail = n,
                 !.entry_count = @ + 1,
                 !.total_bytes = @ + Footprint(entry.filepath)]

RECURSIVE load_entries(_, _, _, _, _, _)

\* load_entries as it would be if a record whose fixed-size fields are cut
\* short were still linked, the missing fields left zero.
load_entries_partial(c, d, pos, i, count, oom) ==
    IF i >= count \/ pos > Len(d) THEN [c |-> c, oom |-> oom]
    ELSE LET path_len == d[pos][1]
             filepath == IF pos + 1 <= Len(d) THEN d[pos + 1] ELSE <<>>
             num(k) == IF pos + k <= Len(d) THEN d[pos + k][1] ELSE 0
             hash == IF pos + 3 <= Len(d) THEN d[pos + 3] ELSE <<0, 0>>
         IN IF Len(filepath) # path_len
            THEN [c |-> c, oom |-> oom]
            ELSE IF HeapFull(c)
            THEN load_entries(c, d, pos + 6, i + 1, count, TRUE)
            ELSE load_entries(
                     append_tail(c, Calloc(c),
                         CacheNode(filepath, num(2), hash, num(4), num(5))),
                     d, pos + 6, i + 1, count, oom)

\* The for loop of cache_manager_load from field pos on, i records read so
\* far: the cache when the loop ends, and whether a calloc found the heap
\* full (the record is then skipped by "continue").
load_entries(c, d, pos, i, count, oom) ==
    IF i >= count \/ pos > Len(d) THEN [c |-> c, oom |-> oom]
    ELSE LET path_len == d[pos][1]
             filepath == IF pos + 1 <= Len(d) THEN d[pos + 1] ELSE <<>>
         IN IF Len(filepath) # path_len \/ pos + 5 > Len(d)
            THEN [c |-> c, oom |-> oom]
            ELSE IF HeapFull(c)
            THEN load_entries(c, d, pos + 6, i + 1, count, TRUE)
            ELSE load_entries(
                     append_tail(c, Calloc(c),
                         CacheNode(filepath, d[pos + 2][1], d[pos + 3],
                                   d[pos + 4][1], d[pos + 5][1])),
                     d, pos + 6, i + 1, count, oom)

\* load_read as it would be if the version read were not compared.
load_read_any_version(c, file) ==
    IF ~file.exists
    THEN [c |-> c, ret |-> TRUE, enforce |-> FALSE, oom |-> FALSE]
    ELSE IF Len(file.fields) < 1
    THEN [c |-> c, ret |-> TRUE, enforce |-> FALSE, oom |-> FALSE]
    ELSE IF Len(file.fields) < 2
    THEN [c |-> c, ret |-> FALSE, enforce |-> FALSE, oom |-> FALSE]
    ELSE LET r == load_entries(c, file.fields, 3, 0, file.fields[2][1], FALSE)
         IN [c |-> r.c, ret |-> TRUE, enforce |-> TRUE, oom |-> r.oom]

\* cache_manager_load up to fclose: the cache before the limits are
\* enforced, the value returned, and whether the limits are enforced at all.
load_read(c, file) ==
    IF ~file.exists
    THEN [c |-> c, ret |-> TRUE, enforce |-> FALSE, oom |-> FALSE]
    ELSE IF Len(file.fields) < 1 \/ file.fields[1][1] # CACHE_VERSION
    THEN [c |-> c, ret |-> TRUE, enforce |-> FALSE, oom |-> FALSE]
    ELSE IF Len(file.fields) < 2
    THEN [c |-> c, ret |-> FALSE, enforce |-> FALSE, oom |-> FALSE]
    ELSE LET r == load_entries(c, file.fields, 3, 0, file.fields[2][1], FALSE)
         IN [c |-> r.c, ret |-> TRUE, enforce |-> TRUE, oom |-> r.oom]

cache_manager_load(c, file) ==
    LET r == load_read(c, file)
    IN [c |-> IF r.enforce THEN cache_enforce_limits(r.c) ELSE r.c,
        ret |-> r.ret]

(***************************************************************************)
(* Views of the cache used by the actions' bookkeeping and the properties. *)
(***************************************************************************)
\* The nodes met walking from n by the link f, at most k of them.
RECURSIVE Walk(_, _, _, _)
Walk(c, n, f, k) ==
    IF n = NULL \/ k = 0 THEN <<>>
    ELSE <<n>> \o Walk(c, c.node[n][f], f, k - 1)

LruNodes(c) == Walk(c, c.lru_head, "lru_next", MaxNodes + 1)
LruNodesBack(c) == Walk(c, c.lru_tail, "lru_prev", MaxNodes + 1)
ChainNodes(c, b) == Walk(c, c.hash_table[b], "next", MaxNodes + 1)

Range(s) == {s[i] : i \in 1..Len(s)}
Reverse(s) == [i \in 1..Len(s) |-> s[Len(s) + 1 - i]]
Entry(nd) == <<nd.filepath, nd.mtime, nd.hash, nd.size, nd.last_accessed>>
LruPaths(c) == [i \in 1..Len(LruNodes(c)) |-> c.node[LruNodes(c)[i]].filepath]
LruEntries(c) == [i \in 1..Len(LruNodes(c)) |-> Entry(c.node[LruNodes(c)[i]])]

\* p moved to the front of a most-recent-first list of paths.
Touched(seq, p) == <<p>> \o SelectSeq(seq, LAMBDA x : x # p)

Nothing == <<>>
\* The path given to cache_manager_create: ".c".
CacheFile == <<46, 99>>

NoCall == [op |-> "create", path |-> NoPath, ret |-> TRUE]
Call(op, path, ret) == [op |-> op, path |-> path, ret |-> ret]
NotSaved == [valid |-> FALSE, lru |-> <<>>, entry_count |-> 0, total_bytes |-> 0]

(***************************************************************************)
(* The state after cache_manager_create, with every source file in place   *)
(* and no snapshot on disk.                                                *)
(***************************************************************************)
Start(c, ncalls, nenvs, tr) ==
    /\ cache = c
    /\ fs = FirstFiles
    /\ disk = NoFile
    /\ now = 1
    /\ hung = FALSE
    /\ last = NoCall
    /\ modified = FALSE
    /\ saved = NotSaved
    /\ recency = <<>>
    /\ recencyAny = <<>>
    /\ track = tr
    /\ calls = ncalls
    /\ envs = nenvs
    /\ unread = Nothing
    /\ ManifestStart(0)
    /\ WalkerIdle
    /\ RestIdle

Init == Start(cache_manager_create, MaxCalls, MaxEnv, FALSE)

\* A call that reads the file named by reads (Nothing when it reads none).
\* A change of a file is seen by the program only through the next call that
\* reads that file, so the environment changes a file right before such a
\* call: every other order of the same steps gives the calls the same inputs.
CanCall(reads) == calls > 0 /\ ~hung /\ unread \in {Nothing, reads}
Called(op, path, ret) ==
    /\ last' = Call(op, path, ret)
    /\ modified' = FALSE
    /\ calls' = calls - 1
    /\ unread' = Nothing
    /\ UNCHANGED nonCache

(***************************************************************************)
(* The API calls.                                                          *)
(***************************************************************************)
IsFileChanged(p) ==
    /\ CanCall(p)
    /\ LET r == cache_is_file_changed(cache, p, fs[p], now)
       IN /\ cache' = r.c
          /\ Called("is_file_changed", p, r.ret)
          /\ recency' = IF track /\ fs[p].exists /\ lookup(cache, p) # NULL
                        THEN Touched(recency, p) ELSE recency
          /\ recencyAny' = IF track /\ lookup(cache, p) # NULL
                           THEN Touched(recencyAny, p) ELSE recencyAny
    /\ UNCHANGED <<fs, disk, now, hung, saved, track, envs>>

UpdateFile(p) ==
    /\ CanCall(p)
    /\ ~HeapFull(cache)
    /\ \E mallocOk \in (IF fs[p].size = 0 THEN BOOLEAN ELSE {TRUE}) :
          LET r == cache_update_file(cache, p, fs[p], now, mallocOk)
          IN /\ cache' = r.c
             /\ hung' = update_spins(cache, p, fs[p], now, mallocOk)
             /\ Called("update_file", p, r.ret)
             /\ recency' = IF track /\ r.ret THEN Touched(recency, p)
                           ELSE recency
             /\ recencyAny' = IF track /\ r.ret THEN Touched(recencyAny, p)
                              ELSE recencyAny
    /\ UNCHANGED <<fs, disk, now, saved, track, envs>>

Limits == {0, 1, 2}
ByteLimits == {0, 1, Footprint(PathAZ) + Footprint(PathC)}

SetLimits(max_entries, max_bytes) ==
    /\ CanCall(Nothing)
    /\ cache' = cache_set_limits(cache, max_entries, max_bytes)
    /\ hung' = Spins([cache EXCEPT !.max_entries = max_entries,
                                   !.max_bytes = max_bytes])
    /\ Called("set_limits", NoPath, TRUE)
    /\ UNCHANGED <<fs, disk, now, saved, recency, recencyAny, track, envs>>

Clear ==
    /\ CanCall(Nothing)
    /\ cache' = cache_clear(cache)
    /\ Called("clear", NoPath, TRUE)
    /\ UNCHANGED <<fs, disk, now, hung, saved, recency, recencyAny, track, envs>>

Save ==
    /\ CanCall(Nothing)
    /\ \E fopenOk \in BOOLEAN :
          /\ disk' = IF fopenOk THEN cache_manager_save(cache) ELSE disk
          /\ saved' = IF fopenOk
                      THEN [valid |-> TRUE, lru |-> LruEntries(cache),
                            entry_count |-> cache.entry_count,
                            total_bytes |-> cache.total_bytes]
                      ELSE saved
          /\ Called("save", NoPath, fopenOk)
    /\ UNCHANGED <<cache, fs, now, hung, recency, recencyAny, track, envs>>

Load ==
    /\ CanCall(CacheFile)
    /\ LET r == load_read(cache, disk)
       IN /\ ~r.oom
          /\ cache' = cache_manager_load(cache, disk).c
          /\ hung' = (r.enforce /\ Spins(r.c))
          /\ Called("load", NoPath, r.ret)
    /\ UNCHANGED <<fs, disk, now, saved, recency, recencyAny, track, envs>>

\* cache_manager_free followed by cache_manager_create on the same file: a
\* new run of the program.
Restart ==
    /\ CanCall(Nothing)
    /\ cache' = cache_manager_create
    /\ Called("create", NoPath, TRUE)
    /\ UNCHANGED <<fs, disk, now, hung, saved, recency, recencyAny, track, envs>>

(***************************************************************************)
(* The environment: the clock, the source files, the snapshot file.        *)
(***************************************************************************)
\* A second passes on the clock read by time(NULL).
Tick ==
    /\ envs > 0 /\ calls > 0 /\ unread = Nothing
    /\ now' = now + 1
    /\ envs' = envs - 1
    /\ UNCHANGED <<cache, fs, disk, hung, last, modified, saved, recency,
                   recencyAny, track, calls, unread, nonCache>>

StatOf(f) == <<f.exists, f.mtime, f.size>>

FsWrite(p, f) ==
    /\ envs > 0 /\ calls > 0 /\ unread = Nothing
    /\ unread' = p
    /\ f # fs[p]
    /\ fs' = [fs EXCEPT ![p] = f]
    /\ modified' = (modified \/ (p = last.path /\ StatOf(f) # StatOf(fs[p])))
    /\ envs' = envs - 1
    /\ UNCHANGED <<cache, disk, now, hung, last, saved, recency, recencyAny,
                   track, calls, nonCache>>

\* The snapshot loses its end: it keeps its first k fields, the last of
\* them cut by cut bytes when it is a path.
IsPathField(k) == k >= 4 /\ (k - 4) % 6 = 0

DiskTruncate(k, cut) ==
    /\ envs > 0 /\ calls > 0 /\ unread = Nothing
    /\ unread' = CacheFile
    /\ disk.exists
    /\ k < Len(disk.fields) \/ (k = Len(disk.fields) /\ cut > 0)
    /\ k <= Len(disk.fields)
    /\ cut > 0 => (IsPathField(k) /\ cut <= Len(disk.fields[k]))
    /\ disk' = [disk EXCEPT !.fields =
                  [i \in 1..k |-> IF i = k /\ cut > 0
                                  THEN SubSeq(disk.fields[i], 1,
                                              Len(disk.fields[i]) - cut)
                                  ELSE disk.fields[i]]]
    /\ saved' = NotSaved
    /\ envs' = envs - 1
    /\ UNCHANGED <<cache, fs, now, hung, last, modified, recency, recencyAny,
                   track, calls, nonCache>>

\* The snapshot is one written by another version of the format.
DiskOtherVersion ==
    /\ envs > 0 /\ calls > 0 /\ unread = Nothing
    /\ unread' = CacheFile
    /\ disk.exists /\ Len(disk.fields) >= 1
    /\ disk.fields[1] = <<CACHE_VERSION>>
    /\ disk' = [disk EXCEPT !.fields[1] = <<CACHE_VERSION + 1>>]
    /\ saved' = NotSaved
    /\ envs' = envs - 1
    /\ UNCHANGED <<cache, fs, now, hung, last, modified, recency, recencyAny,
                   track, calls, nonCache>>

DiskRemove ==
    /\ envs > 0 /\ calls > 0 /\ unread = Nothing
    /\ unread' = CacheFile
    /\ disk.exists
    /\ disk' = NoFile
    /\ saved' = NotSaved
    /\ envs' = envs - 1
    /\ UNCHANGED <<cache, fs, now, hung, last, modified, recency, recencyAny,
                   track, calls, nonCache>>

MaxFields == 2 + 6 * MaxNodes

\* Every call and every change of the environment.  The calls of one
\* behaviour fall within one second of the clock: last_accessed is written
\* by the calls and read by cache_manager_save alone, and the clock moves in
\* SpecLRU and in SpecSnap, where recency and snapshots are compared.
Next ==
    \/ \E p \in Paths : IsFileChanged(p)
    \/ \E p \in Paths : UpdateFile(p)
    \/ \E me \in Limits, mb \in ByteLimits : SetLimits(me, mb)
    \/ Clear
    \/ Save
    \/ Load
    \/ Restart
    \/ \E p \in Paths, f \in FileStates : FsWrite(p, f)
    \/ \E k \in 0..MaxFields, cut \in 0..2 : DiskTruncate(k, cut)
    \/ DiskOtherVersion
    \/ DiskRemove

Spec == Init /\ [][Next]_vars

\* Only updates and lookups, under a count limit set once after creation.
InitLRU ==
    \E n \in 1..MaxLimit :
        Start(cache_set_limits(cache_manager_create, n, 0), LruCalls, LruEnv,
              TRUE)

\* The states of a file that differ for a touch: stat fails, stat gives a
\* newer mtime, the read fails, the size is over the cap, none of these.
LruFileStates ==
    {f \in FileStates : \/ ~f.exists \/ ~f.readable \/ f.size > MaxFileSize
                        \/ f = FileBase \/ f.mtime # FileBase.mtime}

NextLRU ==
    \/ \E p \in Paths : IsFileChanged(p)
    \/ \E p \in Paths : UpdateFile(p)
    \/ Tick
    \/ \E p \in Paths, f \in LruFileStates : FsWrite(p, f)

SpecLRU == InitLRU /\ [][NextLRU]_vars

\* The life of a snapshot: written, damaged, read back by a later run.
InitSnap == Start(cache_manager_create, SnapCalls, SnapEnv, FALSE)

NextSnap ==
    \/ \E p \in Paths : IsFileChanged(p)
    \/ \E p \in Paths : UpdateFile(p)
    \/ \E me \in {0, 1}, mb \in {0} : SetLimits(me, mb)
    \/ Save
    \/ Load
    \/ Restart
    \/ Tick
    \/ \E k \in 0..MaxFields, cut \in 0..2 : DiskTruncate(k, cut)
    \/ DiskOtherVersion
    \/ DiskRemove

SpecSnap == InitSnap /\ [][NextSnap]_vars

(***************************************************************************)
(* Properties.                                                             *)
(***************************************************************************)
\* The step is a call of op.
Did(op) == calls' = calls - 1 /\ last'.op = op

RECURSIVE SumFootprint(_)
SumFootprint(paths) ==
    IF paths = <<>> THEN 0
    ELSE Footprint(paths[1]) + SumFootprint(Tail(paths))

PathsOf(entries) == [i \in 1..Len(entries) |-> entries[i][1]]
Prefix(seq, k) == SubSeq(seq, 1, k)

\* A list of entries respects the limits, 0 meaning no limit.
Fits(entries, max_entries, max_bytes) ==
    /\ max_entries = 0 \/ Len(entries) <= max_entries
    /\ max_bytes = 0 \/ SumFootprint(PathsOf(entries)) <= max_bytes

\* The longest prefix of a list of entries that respects the limits.
Kept(entries, max_entries, max_bytes) ==
    LET ks == {k \in 0..Len(entries) :
                  Fits(Prefix(entries, k), max_entries, max_bytes)}
    IN Prefix(entries, CHOOSE k \in ks : \A j \in ks : j <= k)

\* C1: when cache_update_file(f) returned true and f's mtime and size were not
\* modified since, the next cache_is_file_changed(f) returns false, adds
\* exactly one hit and leaves f at the LRU head, whatever the limits are.
C1_UpdateThenUnchanged ==
    [][(/\ last.op = "update_file" /\ last.ret /\ ~modified
        /\ Did("is_file_changed") /\ last'.path = last.path)
       => (/\ ~last'.ret
           /\ cache'.hits = cache.hits + 1
           /\ cache'.lru_head # NULL
           /\ cache'.node[cache'.lru_head].filepath = last.path)]_vars

\* C2: the nodes on the bucket chains are the nodes on the LRU list, which
\* reads the same from the head by lru_next and from the tail by lru_prev;
\* entry_count is their number and total_bytes the sum of their footprints.
C2_IndexMatchesLru ==
    LET chains == [b \in Buckets |-> ChainNodes(cache, b)]
        chained == UNION {Range(chains[b]) : b \in Buckets}
        fwd == LruNodes(cache)
    IN /\ chained = Range(fwd)
       /\ \A b \in Buckets : Len(chains[b]) = Cardinality(Range(chains[b]))
       /\ Len(fwd) = Cardinality(Range(fwd))
       /\ LruNodesBack(cache) = Reverse(fwd)
       /\ cache.entry_count = Cardinality(chained)
       /\ cache.total_bytes = SumFootprint(LruPaths(cache))

\* Reached: a load into a cache that holds an entry put a second node for
\* the same path on the same chain.
C2_Witness ==
    /\ last.op = "load"
    /\ cache.entry_count = 2
    /\ \E b \in Buckets :
          /\ Len(ChainNodes(cache, b)) = 2
          /\ cache.node[ChainNodes(cache, b)[1]].filepath
                 = cache.node[ChainNodes(cache, b)[2]].filepath

Min(a, b) == IF a <= b THEN a ELSE b

\* C4 as amended: under max_entries = N > 0 and no byte limit, after any
\* updates and lookups the LRU list is, in order, the N paths touched most
\* recently, a touch being a successful update or a lookup of a cached path
\* whose stat succeeds; so each eviction takes the entry touched longest ago.
C4_KeepsMostRecentlyTouched ==
    /\ cache.entry_count <= cache.max_entries
    /\ LruPaths(cache) = Prefix(recency, Min(cache.max_entries, Len(recency)))

\* C4: the same with every cache_is_file_changed call on a cached path
\* counted as a touch: the cached paths are the N touched most recently.
C4_KeepsMostRecentlyLookedUp ==
    /\ cache.entry_count <= cache.max_entries
    /\ Range(LruPaths(cache))
           = Range(Prefix(recencyAny,
                          Min(cache.max_entries, Len(recencyAny))))

\* Reached: with two entries allowed, a third path was touched after a hit
\* and the entry touched longest ago is gone.
C4_Witness ==
    /\ cache.max_entries = 2
    /\ cache.entry_count = 2
    /\ Len(recency) = 3
    /\ cache.hits > 0
    /\ last.op = "update_file"

\* C5: cache_is_file_changed returns false exactly when stat succeeds, the
\* lookup finds an entry for the path, and that entry's mtime and size are
\* the file's; in every other case it returns true.
C5_UnchangedExactlyWhenStatMatches ==
    [][Did("is_file_changed")
       => LET p == last'.path
              n == lookup(cache, p)
          IN ~last'.ret <=> (/\ fs[p].exists
                             /\ n # NULL
                             /\ cache.node[n].mtime = fs[p].mtime
                             /\ cache.node[n].size = fs[p].size)]_vars

\* Reached: a cached file whose size alone differs was reported changed.
C5_Witness ==
    /\ last.op = "is_file_changed"
    /\ last.ret
    /\ ~modified
    /\ fs[last.path].exists
    /\ lookup(cache, last.path) # NULL
    /\ cache.node[lookup(cache, last.path)].mtime = fs[last.path].mtime
    /\ cache.node[lookup(cache, last.path)].size # fs[last.path].size

\* C6: every cache_is_file_changed call adds one to exactly one of hits and
\* misses, and a call for a path without an entry returns true, adds one to
\* misses and leaves hits.
C6_EveryLookupCounted ==
    [][Did("is_file_changed")
       => /\ \/ cache'.hits = cache.hits + 1 /\ cache'.misses = cache.misses
             \/ cache'.hits = cache.hits /\ cache'.misses = cache.misses + 1
          /\ lookup(cache, last'.path) = NULL
                => /\ last'.ret
                   /\ cache'.misses = cache.misses + 1
                   /\ cache'.hits = cache.hits]_vars

\* C7: a cache_update_file that returns false leaves the whole cache as it
\* was, and a file above the size cap always makes it return false.
C7_FailedUpdateChangesNothing ==
    [][Did("update_file")
       => /\ ~last'.ret => cache' = cache
          /\ fs[last'.path].size > MaxFileSize => ~last'.ret]_vars

\* Reached: an update of a file above the cap was refused by a cache that
\* holds an entry.
C7_Witness ==
    /\ last.op = "update_file"
    /\ ~last.ret
    /\ ~modified
    /\ fs[last.path].exists /\ fs[last.path].readable
    /\ fs[last.path].size > MaxFileSize
    /\ cache.entry_count > 0

(***************************************************************************)
(* The snapshot read by its layout: u32 version, size_t entry_count, then  *)
(* per entry u16 path_len, the path, mtime, fingerprint, size and          *)
(* last_accessed.                                                          *)
(***************************************************************************)
HeaderValid(file) ==
    /\ file.exists
    /\ Len(file.fields) >= 2
    /\ file.fields[1] = <<CACHE_VERSION>>

RecordComplete(file, i) ==
    LET b == 2 + 6 * (i - 1)
    IN /\ b + 6 <= Len(file.fields)
       /\ Len(file.fields[b + 2]) = file.fields[b + 1][1]

RecordAt(file, i) ==
    LET b == 2 + 6 * (i - 1)
    IN <<file.fields[b + 2], file.fields[b + 3][1], file.fields[b + 4],
         file.fields[b + 5][1], file.fields[b + 6][1]>>

\* The number of complete records before the first incomplete one, at most
\* the count in the header.
CompleteRecords(file) ==
    LET ks == {k \in 0..file.fields[2][1] :
                  \A i \in 1..k : RecordComplete(file, i)}
    IN CHOOSE k \in ks : \A j \in ks : j <= k

SnapshotEntries(file) ==
    [i \in 1..CompleteRecords(file) |-> RecordAt(file, i)]

\* The snapshot ends before the records its header counts.
Truncated(file) == CompleteRecords(file) < file.fields[2][1]

Count(seq, e) == Cardinality({i \in 1..Len(seq) : seq[i] = e})
SameBag(s, t) ==
    /\ Len(s) = Len(t)
    /\ \A e \in Range(s) \cup Range(t) : Count(s, e) = Count(t, e)

\* C8: a load of the snapshot as cache_manager_save wrote it, into an empty
\* cache whose limits the saved entries respect, gives the saved entries
\* (path, mtime, fingerprint, size, last_accessed) with the saved entry_count
\* and total_bytes, the LRU list in the order of the records from head to
\* tail.
C8_SaveLoadRoundTrip ==
    [][(/\ Did("load")
        /\ cache.alloc = {}
        /\ saved.valid
        /\ Fits(saved.lru, cache.max_entries, cache.max_bytes))
       => (/\ last'.ret
           /\ SameBag(LruEntries(cache'), saved.lru)
           /\ cache'.entry_count = saved.entry_count
           /\ cache'.total_bytes = saved.total_bytes
           /\ LruEntries(cache') = SnapshotEntries(disk))]_vars

\* Reached: a new run loaded a snapshot of two entries of one bucket, and
\* the LRU list is not in the order it had when saved.
C8_Witness ==
    /\ last.op = "load"
    /\ saved.valid
    /\ saved.entry_count = 2
    /\ cache.entry_count = 2
    /\ cache.hits = 0 /\ cache.misses = 0
    /\ SameBag(LruEntries(cache), saved.lru)
    /\ \E b \in Buckets : Len(ChainNodes(cache, b)) = 2

\* C9: cache_manager_load returns true and changes nothing when the
\* snapshot is missing or its version is not CACHE_VERSION; a cache left
\* with entry_count = 0 that way reports every file changed.
C9_MissingOrOtherVersion ==
    [][/\ (/\ Did("load")
           /\ \/ ~disk.exists
              \/ Len(disk.fields) >= 1 /\ disk.fields[1] # <<CACHE_VERSION>>)
          => (last'.ret /\ cache' = cache)
       /\ (/\ Did("is_file_changed")
           /\ last.op = "load"
           /\ cache.entry_count = 0)
          => last'.ret]_vars

\* Reached: a new run loaded a snapshot of another version that holds a
\* record, and has no entry.
C9_Witness ==
    /\ last.op = "load"
    /\ last.ret
    /\ disk.exists
    /\ Len(disk.fields) >= 8
    /\ disk.fields[1] # <<CACHE_VERSION>>
    /\ cache.entry_count = 0
    /\ cache.total_bytes = 0

\* C10: a load of a snapshot with a valid header that ends inside record
\* k+1 returns true and adds exactly the first k records at the LRU tail,
\* entry_count growing by k and total_bytes by their footprints.
C10_TruncatedKeepsFirstK ==
    [][(Did("load") /\ HeaderValid(disk) /\ Truncated(disk))
       => (/\ last'.ret
           /\ LruEntries(cache') = LruEntries(cache) \o SnapshotEntries(disk)
           /\ cache'.entry_count
                  = cache.entry_count + CompleteRecords(disk)
           /\ cache'.total_bytes
                  = cache.total_bytes
                    + SumFootprint(PathsOf(SnapshotEntries(disk))))]_vars

\* C10 as amended: the first k records are added at the LRU tail and the
\* limits are then enforced as after any load, which evicts from the tail
\* when they are exceeded; no entry comes from the incomplete record.
C10_TruncatedKeepsFirstKWithinLimits ==
    [][(Did("load") /\ HeaderValid(disk) /\ Truncated(disk))
       => (/\ last'.ret
           /\ LruEntries(cache')
                  = Kept(LruEntries(cache) \o SnapshotEntries(disk),
                         cache.max_entries, cache.max_bytes)
           /\ cache'.entry_count = Len(LruEntries(cache'))
           /\ cache'.total_bytes = SumFootprint(LruPaths(cache')))]_vars

\* Reached: a load of a snapshot that ends inside its second record, whose
\* first record is now an entry.
C10_Witness ==
    /\ last.op = "load"
    /\ last.ret
    /\ HeaderValid(disk)
    /\ disk.fields[2] = <<2>>
    /\ Len(disk.fields) > 8
    /\ CompleteRecords(disk) = 1
    /\ cache.entry_count = 1
    /\ LruEntries(cache) = SnapshotEntries(disk)

\* C11: hits and misses never decrease within a call other than cache_clear;
\* cache_update_file, cache_set_limits (evictions included),
\* cache_manager_load and cache_manager_save leave both as they were;
\* cache_clear sets hits, misses, entry_count and total_bytes to 0, empties
\* the hash table and the LRU list, and leaves max_entries and max_bytes.
C11_OnlyClearResetsCounters ==
    [][/\ (Did("update_file") \/ Did("set_limits") \/ Did("load")
            \/ Did("save"))
          => cache'.hits = cache.hits /\ cache'.misses = cache.misses
       /\ Did("is_file_changed")
          => cache'.hits >= cache.hits /\ cache'.misses >= cache.misses
       /\ Did("clear")
          => /\ cache'.hits = 0 /\ cache'.misses = 0
             /\ cache'.entry_count = 0 /\ cache'.total_bytes = 0
             /\ \A b \in Buckets : cache'.hash_table[b] = NULL
             /\ cache'.lru_head = NULL /\ cache'.lru_tail = NULL
             /\ cache'.alloc = {}
             /\ cache'.max_entries = cache.max_entries
             /\ cache'.max_bytes = cache.max_bytes]_vars

\* Reached: cache_set_limits evicted the only entry of a cache that has
\* counted a hit, and the hit is still counted.
C11_Witness ==
    /\ last.op = "set_limits"
    /\ cache.hits > 0
    /\ cache.entry_count = 0
    /\ cache.max_bytes = 1

(***************************************************************************)
(* The aggregate of a scan (src/src/core/entity.c, src/src/core/manifest.c *)
(* and parse_file_callback of src/src/main.c).  A path is the sequence of   *)
(* its characters.  Every allocation succeeds and no list outgrows its     *)
(* capacity.                                                               *)
(***************************************************************************)
\* Results merged and files removed in one behaviour of SpecManifest.
MaxOps == 5
\* Two files of directory a, and a file of directory b named as one of them.
FileAM == <<"a", "/", "m", ".", "p", "y">>
FileAN == <<"a", "/", "n", ".", "p", "y">>
FileBM == <<"b", "/", "m", ".", "p", "y">>
SourceFiles == {FileAM, FileAN, FileBM}
\* A file no plugin supports.
FileMD == <<"a", "/", "r", ".", "m", "d">>

\* strrchr: the index of the last c in str, 0 when there is none.
RECURSIVE strrchr(_, _)
strrchr(str, c) ==
    IF str = <<>> THEN 0
    ELSE IF str[Len(str)] = c THEN Len(str)
    ELSE strrchr(SubSeq(str, 1, Len(str) - 1), c)

path_basename(path) == SubSeq(path, strrchr(path, "/") + 1, Len(path))

\* dirname(3) of a path that does not end in a slash and whose directory
\* part has no doubled slash.
path_dirname(path) ==
    LET slash == strrchr(path, "/")
    IN IF slash = 0 THEN <<".">>
       ELSE IF slash = 1 THEN <<"/">>
       ELSE SubSeq(path, 1, slash - 1)

python_infer_service_name(filepath) == path_basename(path_dirname(filepath))

service_create(id, name, language, path) ==
    [id |-> id, name |-> name, language |-> language, path |-> path,
     files |-> <<>>]

service_add_file(service, filepath) ==
    [service EXCEPT !.files = Append(@, filepath)]

\* The index of the first item of seq that satisfies Test, 0 when none does.
FirstIndex(seq, Test(_)) ==
    IF \E i \in 1..Len(seq) : Test(seq[i])
    THEN CHOOSE i \in 1..Len(seq) :
            Test(seq[i]) /\ \A j \in 1..(i - 1) : ~Test(seq[j])
    ELSE 0

\* A removal that fills the hole with the last item.
ShiftOut_swap_last(items, i) ==
    [j \in 1..(Len(items) - 1) |-> IF j = i THEN items[Len(items)] ELSE items[j]]

\* The shift loop of the three removals: items[j] = items[j + 1] from i on,
\* then count--.
ShiftOut(items, i) ==
    [j \in 1..(Len(items) - 1) |-> IF j < i THEN items[j] ELSE items[j + 1]]

\* service_remove_file: the first files[i] equal to filepath is removed.
service_remove_file(service, filepath) ==
    LET i == FirstIndex(service.files, LAMBDA f : f = filepath)
    IN IF i = 0 THEN service
       ELSE [service EXCEPT !.files = ShiftOut(@, i)]

endpoint_create(id, service_name, path, method, handler, file, line) ==
    [id |-> id, service_name |-> service_name, path |-> path,
     method |-> method, handler |-> handler, file |-> file, line |-> line]

\* A confidence is a float between 0.0 and 1.0, kept here in hundredths.
\* edge_create: the confidence starts at 1.0.
edge_create(id, from_service, to_service, type, method, endpoint, file, line) ==
    [id |-> id, from_service |-> from_service, to_service |-> to_service,
     type |-> type, method |-> method, endpoint |-> endpoint, file |-> file,
     line |-> line, confidence |-> 100]
\* What json_object_get_double gives for a "confidence" that is no number
\* (the literal NaN, or the string "nan"): a float that is not a number.
NaN == 1000000
\* The comparison a < b of two floats: false when one of them is not a number.
fless(a, b) == a # NaN /\ b # NaN /\ a < b
\* edge_set_confidence: a value below 0.0 becomes 0.0, one above 1.0 becomes
\* 1.0, and the result is stored.
edge_set_confidence(edge, confidence) ==
    LET low == IF fless(confidence, 0) THEN 0 ELSE confidence
        high == IF fless(100, low) THEN 100 ELSE low
    IN  [edge EXCEPT !.confidence = high]
\* edge_clone: another edge made by edge_create, with the confidence copied.
edge_clone(id, edge) ==
    [edge_create(id, edge.from_service, edge.to_service, edge.type,
                 edge.method, edge.endpoint, edge.file, edge.line)
        EXCEPT !.confidence = edge.confidence]

\* A lookup that finds nothing.
service_list_find_none(list, name) == 0

service_list_find(list, name) == FirstIndex(list, LAMBDA s : s.name = name)

service_list_add(list, service) ==
    IF service_list_find(list, service.name) # 0
    THEN [list |-> list, ret |-> FALSE]
    ELSE [list |-> Append(list, service), ret |-> TRUE]

\* An endpoint_list_add that refuses an endpoint equal by endpoint_compare
\* to one in the list.
endpoint_list_add_dedup(list, endpoint) ==
    IF \E i \in 1..Len(list) :
          /\ list[i].service_name = endpoint.service_name
          /\ list[i].path = endpoint.path
          /\ list[i].method = endpoint.method
    THEN list
    ELSE Append(list, endpoint)

endpoint_list_add(list, endpoint) == Append(list, endpoint)
edge_list_add(list, edge) == Append(list, edge)

\* The two collecting loops of parse_file_callback, from item i on.
RECURSIVE collect_endpoints(_, _, _)
collect_endpoints(list, items, i) ==
    IF i > Len(items) THEN list
    ELSE collect_endpoints(endpoint_list_add(list, items[i]), items, i + 1)

RECURSIVE collect_edges(_, _, _)
collect_edges(list, items, i) ==
    IF i > Len(items) THEN list
    ELSE collect_edges(edge_list_add(list, items[i]), items, i + 1)

\* A C string pointer that is NULL, where the string itself is a sequence.
NullStr == <<"NULL">>

path_get_extension(path) ==
    LET dot == strrchr(path, ".")
        slash == strrchr(path, "/")
    IN IF dot # 0 /\ (slash = 0 \/ dot > slash)
       THEN SubSeq(path, dot + 1, Len(path))
       ELSE NullStr

python_extensions == {<<"p", "y">>, <<"p", "y", "i">>}
python_supports_file(filepath) ==
    LET ext == path_get_extension(filepath)
    IN ext # NullStr /\ ext \in python_extensions

\* plugin_registry_get_for_file with the python plugin registered.
plugin_registry_get_for_file(filepath) == python_supports_file(filepath)

\* What the queries of the python plugin find in each file: the lines of its
\* routes and of its HTTP calls.
Found ==
    (FileAM :> [routes |-> <<1, 2>>, calls |-> <<10>>])
    @@ (FileAN :> [routes |-> <<3>>, calls |-> <<>>])
    @@ (FileBM :> [routes |-> <<4>>, calls |-> <<11>>])
    @@ (FileMD :> [routes |-> <<>>, calls |-> <<>>])
\* How a parse ends: python_parse_file returns NULL (python_init fails), a
\* result with success = false (the file cannot be read or parsed), or a
\* result with what Found gives.
ParseKinds == {"ok", "null", "failed"}
ParseOutcome(filepath, kind) ==
    [kind |-> kind,
     routes |-> IF kind = "ok" THEN Found[filepath].routes ELSE <<>>,
     calls |-> IF kind = "ok" THEN Found[filepath].calls ELSE <<>>]

RoutePath == <<"/", "r">>
Url == <<"u">>

\* python_parse_file: NULL (the empty sequence), or a ParseResult whose
\* service pointer is NULL (the empty sequence) when success is false.  The
\* entities are allocated at id, id + 1, ...
python_parse_file(filepath, service_name, outcome, id) ==
    IF outcome.kind = "null" THEN <<>>
    ELSE IF outcome.kind = "failed"
    THEN << [success |-> FALSE, service |-> <<>>, endpoints |-> <<>>,
             edges |-> <<>>] >>
    ELSE LET service == service_create(id, service_name, "python", filepath)
             nr == Len(outcome.routes)
         IN << [success |-> TRUE,
                service |-> <<service>>,
                endpoints |->
                    [i \in 1..nr |->
                        endpoint_create(id + i, service_name, RoutePath,
                                        "GET", <<"h">>,
                                        path_basename(service.path),
                                        outcome.routes[i])],
                edges |->
                    [i \in 1..Len(outcome.calls) |->
                        edge_set_confidence(
                            edge_create(id + nr + i, service_name, Url,
                                        "HTTP_CALL", <<"g", "e", "t">>, Url,
                                        path_basename(service.path),
                                        outcome.calls[i]), 80)]] >>

\* The entities python_parse_file allocates.
Allocated(outcome) ==
    IF outcome.kind = "ok"
    THEN 1 + Len(outcome.routes) + Len(outcome.calls)
    ELSE 0

\* parse_file_callback from the check of the result on: the lists after the
\* merge, and the entities released on the way.
merge_parse_result(m, filepath, result) ==
    IF result = <<>> \/ ~result[1].success
    THEN [m |-> m, freed |-> {}]
    ELSE
      LET r == result[1]
          existing == IF r.service = <<>> THEN 0
                      ELSE service_list_find(m.services, r.service[1].name)
          services ==
              IF r.service = <<>> THEN m.services
              ELSE IF existing # 0
              THEN [m.services EXCEPT
                       ![existing] = service_add_file(@, filepath)]
              ELSE service_list_add(m.services, r.service[1]).list
      IN [m |-> [services |-> services,
                 endpoints |-> collect_endpoints(m.endpoints, r.endpoints, 1),
                 edges |-> collect_edges(m.edges, r.edges, 1)],
          freed |-> IF existing # 0 THEN {r.service[1].id} ELSE {}]

\* The removal loops of manifest_remove_file: every item whose file is
\* basename is freed and shifted out; i moves on only past a kept item.
RECURSIVE remove_by_file(_, _, _)
remove_by_file(items, i, basename) ==
    IF i > Len(items) THEN [items |-> items, freed |-> {}]
    ELSE IF items[i].file # NullStr /\ items[i].file = basename
    THEN LET rest == remove_by_file(ShiftOut(items, i), i, basename)
         IN [items |-> rest.items, freed |-> rest.freed \cup {items[i].id}]
    ELSE remove_by_file(items, i + 1, basename)

\* A removal that also drops the services left without a file.
manifest_remove_file_prunes(m, filepath) ==
    LET basename == path_basename(filepath)
        eps == remove_by_file(m.endpoints, 1, basename)
        egs == remove_by_file(m.edges, 1, basename)
        svcs == [i \in 1..Len(m.services) |->
                    service_remove_file(m.services[i], filepath)]
    IN [m |-> [services |-> SelectSeq(svcs, LAMBDA v : v.files # <<>>),
               endpoints |-> eps.items,
               edges |-> egs.items],
        freed |-> eps.freed \cup egs.freed,
        ret |-> TRUE]

manifest_remove_file(m, filepath) ==
    LET basename == path_basename(filepath)
        eps == remove_by_file(m.endpoints, 1, basename)
        egs == remove_by_file(m.edges, 1, basename)
    IN [m |-> [services |-> [i \in 1..Len(m.services) |->
                                service_remove_file(m.services[i], filepath)],
               endpoints |-> eps.items,
               edges |-> egs.items],
        freed |-> eps.freed \cup egs.freed,
        ret |-> TRUE]

(***************************************************************************)
(* The operations on the aggregate.                                        *)
(***************************************************************************)
\* parse_file_callback(filepath).
Merge(filepath, kind) ==
    /\ mcalls > 0
    /\ IF plugin_registry_get_for_file(filepath)
       THEN LET outcome == ParseOutcome(filepath, kind)
                result == python_parse_file(filepath,
                              python_infer_service_name(filepath), outcome,
                              nextId)
                r == merge_parse_result(manifest, filepath, result)
            IN /\ manifest' = r.m
               /\ freed' = freed \cup r.freed
               /\ nextId' = nextId + Allocated(outcome)
               /\ mlast' = MOp("merge", filepath, result, TRUE, manifest,
                                r.freed)
       ELSE /\ kind = "null"
            /\ mlast' = MOp("merge", filepath, <<>>, TRUE, manifest, {})
            /\ UNCHANGED <<manifest, freed, nextId>>
    /\ mcalls' = mcalls - 1
    /\ UNCHANGED nonManifest

RemoveFile(filepath) ==
    /\ mcalls > 0
    /\ LET r == manifest_remove_file(manifest, filepath)
       IN /\ manifest' = r.m
          /\ freed' = freed \cup r.freed
          /\ mlast' = MOp("remove_file", filepath, <<>>, r.ret, manifest,
                           r.freed)
    /\ mcalls' = mcalls - 1
    /\ UNCHANGED <<nextId, nonManifest>>

\* The cache as created, with no call to come.
CacheIdle ==
    /\ cache = cache_manager_create
    /\ fs = FirstFiles
    /\ disk = NoFile
    /\ now = 1
    /\ hung = FALSE
    /\ last = NoCall
    /\ modified = FALSE
    /\ saved = NotSaved
    /\ recency = <<>>
    /\ recencyAny = <<>>
    /\ track = FALSE
    /\ calls = 0
    /\ envs = 0
    /\ unread = Nothing
\* Every component but one is as created and gets no call.
AllIdleBut(component) ==
    /\ CacheIdle
    /\ component = "manifest" \/ ManifestStart(0)
    /\ component = "walker" \/ WalkerIdle
    /\ component = "pool" \/ PoolIdle
    /\ component = "registry" \/ RegistryIdle
    /\ component = "edge" \/ EdgeIdle
    /\ component = "function" \/ FunctionIdle

InitManifest ==
    /\ cache = cache_manager_create
    /\ fs = FirstFiles
    /\ disk = NoFile
    /\ now = 1
    /\ hung = FALSE
    /\ last = NoCall
    /\ modified = FALSE
    /\ saved = NotSaved
    /\ recency = <<>>
    /\ recencyAny = <<>>
    /\ track = FALSE
    /\ calls = 0
    /\ envs = 0
    /\ unread = Nothing
    /\ ManifestStart(MaxOps)
    /\ WalkerIdle
    /\ RestIdle

NextManifest ==
    \/ \E f \in SourceFiles \cup {FileMD}, k \in ParseKinds : Merge(f, k)
    \/ \E f \in SourceFiles : RemoveFile(f)

SpecManifest == InitManifest /\ [][NextManifest]_vars

(***************************************************************************)
(* Properties of the aggregate.                                            *)
(***************************************************************************)
\* The step is the operation op on the aggregate.
DidM(op) == mcalls' = mcalls - 1 /\ mlast'.op = op

FilesOf(items) == {items[i].file : i \in 1..Len(items)}
Ids(items) == [i \in 1..Len(items) |-> items[i].id]
Names(items) == [i \in 1..Len(items) |-> items[i].name]
Lines(items) == [i \in 1..Len(items) |-> items[i].line]

\* C12: after manifest_remove_file(m, p) no endpoint and no edge has
\* provenance file p (recorded as the base name of p), no service's file
\* list contains p, and a second manifest_remove_file(m, p) changes nothing.
C12_RemoveFileRemovesAll ==
    [][DidM("remove_file")
       => LET p == mlast'.filepath
          IN /\ path_basename(p) \notin FilesOf(manifest'.endpoints)
             /\ path_basename(p) \notin FilesOf(manifest'.edges)
             /\ \A i \in 1..Len(manifest'.services) :
                   p \notin Range(manifest'.services[i].files)
             /\ manifest_remove_file(manifest', p).m = manifest']_vars

\* C13: manifest_remove_file keeps the surviving endpoints, edges and file
\* paths in their order, each list loses exactly the removed items, and no
\* listed entity is a freed one.
C13_RemoveFileKeepsOrder ==
    [][DidM("remove_file")
       => LET base == path_basename(mlast'.filepath)
              Survives(e) == e.file # base
              NotP(f) == f # mlast'.filepath
          IN /\ manifest'.endpoints = SelectSeq(manifest.endpoints, Survives)
             /\ manifest'.edges = SelectSeq(manifest.edges, Survives)
             /\ Len(manifest'.endpoints) + Len(manifest'.edges)
                + Cardinality(mlast'.released)
                = Len(manifest.endpoints) + Len(manifest.edges)
             /\ \A i \in 1..Len(manifest.services) :
                   LET old == manifest.services[i].files
                       new == manifest'.services[i].files
                   IN /\ SelectSeq(new, NotP) = SelectSeq(old, NotP)
                      /\ Len(new) = Len(old)
                                    - (IF mlast'.filepath \in Range(old)
                                       THEN 1 ELSE 0)
                      /\ \/ new = old
                         \/ \E k \in 1..Len(old) :
                               new = SubSeq(old, 1, k - 1)
                                     \o SubSeq(old, k + 1, Len(old))
             /\ \A id \in Range(Ids(manifest'.endpoints))
                          \cup Range(Ids(manifest'.edges))
                          \cup Range(Ids(manifest'.services)) :
                   id \notin freed']_vars

\* Reached: manifest_remove_file took an endpoint from between two that
\* stayed, and a path from before one that stayed.
C13_Witness ==
    /\ mlast.op = "remove_file"
    /\ \E i \in 2..(Len(mlast.before.endpoints) - 1) :
          /\ mlast.before.endpoints[i].id \in mlast.released
          /\ mlast.before.endpoints[i - 1].id \notin mlast.released
          /\ mlast.before.endpoints[i + 1].id \notin mlast.released
    /\ \E s \in 1..Len(manifest.services) :
          /\ Len(mlast.before.services[s].files) >= 2
          /\ mlast.before.services[s].files[1] = mlast.filepath
          /\ manifest.services[s].files = Tail(mlast.before.services[s].files)

\* The step merges a result with success = true.
MergedOk == DidM("merge") /\ mlast'.result # <<>> /\ mlast'.result[1].success

\* C14: the service list never holds two services of one name; merging a
\* result whose service name is listed leaves the number of services and
\* releases the result's Service; service_list_add of a listed name returns
\* false and leaves the list.
C14_OneServicePerName ==
    /\ [](/\ \A i, j \in 1..Len(manifest.services) :
                manifest.services[i].name = manifest.services[j].name
                   => i = j
          /\ \A i \in 1..Len(manifest.services) :
                service_list_add(manifest.services,
                                 service_create(nextId,
                                                manifest.services[i].name,
                                                "python", <<>>))
                = [list |-> manifest.services, ret |-> FALSE])
    /\ [][(MergedOk /\ mlast'.result[1].service[1].name
                         \in Range(Names(manifest.services)))
          => /\ Len(manifest'.services) = Len(manifest.services)
             /\ Names(manifest'.services) = Names(manifest.services)
             /\ mlast'.result[1].service[1].id \in freed'
             /\ mlast'.result[1].service[1].id
                   \notin Range(Ids(manifest'.services))]_vars

\* Reached: with two services listed, a result for one of them was merged
\* and its Service released.
C14_Witness ==
    /\ mlast.op = "merge"
    /\ mlast.result # <<>> /\ mlast.result[1].success
    /\ Len(mlast.before.services) = 2
    /\ Len(manifest.services) = 2
    /\ mlast.result[1].service[1].id \in mlast.released

\* C15: after the merge of a successful result for file p of service S, the
\* file list of S contains p exactly once, whether the merge created S or
\* found it, and whether p was merged before or not.
C15_EachFileListedOnce ==
    [][MergedOk
       => \A i \in 1..Len(manifest'.services) :
             manifest'.services[i].name
                = python_infer_service_name(mlast'.filepath)
             => Count(manifest'.services[i].files, mlast'.filepath) = 1]_vars

\* C16: the merge of a successful result appends the result's endpoints and
\* edges, in the result's order and without deduplication, after the items
\* already listed; a result with success = false (or no result) changes
\* nothing.
C16_MergeAppendsAll ==
    [][DidM("merge")
       => IF mlast'.result # <<>> /\ mlast'.result[1].success
          THEN /\ manifest'.endpoints
                     = manifest.endpoints \o mlast'.result[1].endpoints
               /\ manifest'.edges = manifest.edges \o mlast'.result[1].edges
          ELSE manifest' = manifest /\ freed' = freed]_vars

\* Reached: a result with two endpoints and an edge was merged into lists
\* that held equal ones from an earlier merge of the file.
C16_Witness ==
    /\ mlast.op = "merge"
    /\ mlast.result # <<>> /\ mlast.result[1].success
    /\ Len(mlast.result[1].endpoints) = 2
    /\ Len(mlast.result[1].edges) = 1
    /\ Lines(manifest.endpoints)
          = Lines(mlast.result[1].endpoints) \o Lines(mlast.result[1].endpoints)
    /\ Len(manifest.edges) = 2

\* C17: manifest_remove_file leaves the service list's count, services and
\* order, also when it empties a service's file list.
C17_RemoveFileKeepsServices ==
    [][DidM("remove_file")
       => /\ Len(manifest'.services) = Len(manifest.services)
          /\ Names(manifest'.services) = Names(manifest.services)
          /\ Ids(manifest'.services) = Ids(manifest.services)]_vars

\* Reached: manifest_remove_file removed the only path of the first of two
\* services.
C17_Witness ==
    /\ mlast.op = "remove_file"
    /\ Len(manifest.services) = 2
    /\ mlast.before.services[1].files = <<mlast.filepath>>
    /\ manifest.services[1].files = <<>>
\* ---------------------------------------------------------------------------
\* The directory walker (src/src/core/walker.c, src/src/util/path.c).
\* ---------------------------------------------------------------------------

\* Most directories or entries one walk finds failing.
MaxFail == 1
\* Largest max_depth a walk is configured with.
MaxDepth == 3

\* static const char* BUILTIN_IGNORE_PATTERNS[].
BUILTIN_IGNORE_PATTERNS ==
    <<<<".", "g", "i", "t">>,
      <<".", "s", "v", "n">>,
      <<".", "h", "g">>,
      <<"n", "o", "d", "e", "_", "m", "o", "d", "u", "l", "e", "s">>,
      <<"_", "_", "p", "y", "c", "a", "c", "h", "e", "_", "_">>,
      <<".", "p", "y", "t", "e", "s", "t", "_", "c", "a", "c", "h", "e">>,
      <<".", "m", "y", "p", "y", "_", "c", "a", "c", "h", "e">>,
      <<"v", "e", "n", "v">>,
      <<".", "v", "e", "n", "v">>,
      <<"e", "n", "v">>,
      <<".", "e", "n", "v">>,
      <<"b", "u", "i", "l", "d">>,
      <<"d", "i", "s", "t">>,
      <<".", "D", "S", "_", "S", "t", "o", "r", "e">>,
      <<"*", ".", "p", "y", "c">>,
      <<"*", ".", "p", "y", "o">>,
      <<"*", ".", "p", "y", "d">>,
      <<".", "s", "o">>,
      <<".", "d", "y", "l", "i", "b">>>>

\* path_matches_pattern: "*" is any run of characters, "?" exactly one.
RECURSIVE path_matches_pattern(_, _)
path_matches_pattern(filename, pattern) ==
    IF pattern = <<>> THEN filename = <<>>
    ELSE IF pattern[1] = "*" THEN
        IF Tail(pattern) = <<>> THEN TRUE
        ELSE \E k \in 1..Len(filename) :
                 path_matches_pattern(SubSeq(filename, k, Len(filename)),
                                      Tail(pattern))
    ELSE IF pattern[1] = "?" THEN
        /\ filename # <<>>
        /\ path_matches_pattern(Tail(filename), Tail(pattern))
    ELSE
        /\ filename # <<>>
        /\ pattern[1] = filename[1]
        /\ path_matches_pattern(Tail(filename), Tail(pattern))

\* A changed should_ignore_builtin: nothing is ignored.
should_ignore_nothing(name) == FALSE
\* should_ignore_builtin.
should_ignore_builtin(name) ==
    \E i \in 1..Len(BUILTIN_IGNORE_PATTERNS) :
        path_matches_pattern(name, BUILTIN_IGNORE_PATTERNS[i])
\* walker_should_ignore: the path is unused.
walker_should_ignore(path, filename) == should_ignore_builtin(filename)

\* matches_extensions: no list accepts every file.
matches_extensions(filepath, config) ==
    IF config.extensions = <<>> THEN TRUE
    ELSE LET ext == path_get_extension(filepath)
         IN  IF ext = NullStr THEN FALSE
             ELSE \E i \in 1..Len(config.extensions) :
                      ext = config.extensions[i]

\* path_join.
path_join(base, component) ==
    LET needs_sep == Len(base) > 0 /\ base[Len(base)] # "/"
    IN  base \o (IF needs_sep THEN <<"/">> ELSE <<>>) \o component

\* The tree the walks run on: each entry's name, its directory, what lstat
\* says it is and, for a symbolic link, what it points to (0: nothing).  The
\* link r/.git/up points to the directory it is in.
tree ==
    <<[name |-> <<"r">>, parent |-> 0, kind |-> "dir", target |-> 0],
      [name |-> <<"a", ".", "p", "y">>, parent |-> 1, kind |-> "file", target |-> 0],
      [name |-> <<".", "g", "i", "t">>, parent |-> 1, kind |-> "dir", target |-> 0],
      [name |-> <<"c", ".", "p", "y">>, parent |-> 3, kind |-> "file", target |-> 0],
      [name |-> <<"p", "k", "g">>, parent |-> 1, kind |-> "dir", target |-> 0],
      [name |-> <<"d", ".", "p", "y">>, parent |-> 5, kind |-> "file", target |-> 0],
      [name |-> <<"x", ".", "p", "y", "c">>, parent |-> 5, kind |-> "file", target |-> 0],
      [name |-> <<"s", "u", "b">>, parent |-> 5, kind |-> "dir", target |-> 0],
      [name |-> <<"e", ".", "p", "y">>, parent |-> 8, kind |-> "file", target |-> 0],
      [name |-> <<"n", ".", "m", "d">>, parent |-> 1, kind |-> "file", target |-> 0],
      [name |-> <<"l", "n", "k">>, parent |-> 1, kind |-> "link", target |-> 5],
      [name |-> <<"f", ".", "p", "y">>, parent |-> 8, kind |-> "link", target |-> 2],
      [name |-> <<"g", ".", "p", "y">>, parent |-> 1, kind |-> "link", target |-> 0],
      [name |-> <<"q", ".", "p", "y">>, parent |-> 5, kind |-> "fifo", target |-> 0],
      [name |-> <<"v", "e", "n", "v">>, parent |-> 1, kind |-> "link", target |-> 5],
      [name |-> <<"u", "p">>, parent |-> 3, kind |-> "link", target |-> 3]>>
TreeNodes == 1..Len(tree)
RootNode == 1
Dirs == {n \in TreeNodes : tree[n].kind = "dir"}
Dot == <<".">>
DotDot == <<".", ".">>
\* What readdir returns for a directory, in order.
RECURSIVE EntriesFrom(_, _)
EntriesFrom(dir, n) ==
    IF n > Len(tree) THEN <<>>
    ELSE (IF tree[n].parent = dir THEN <<tree[n].name>> ELSE <<>>)
         \o EntriesFrom(dir, n + 1)
readdir(dir) == <<Dot, DotDot>> \o EntriesFrom(dir, 1)
\* The entry of a directory with a name.
Child(dir, name) ==
    CHOOSE n \in TreeNodes : tree[n].parent = dir /\ tree[n].name = name
\* What stat sees: the entry itself, or what a link points to (0: stat fails).
Resolve(n) == IF n # 0 /\ tree[n].kind = "link" THEN tree[n].target ELSE n
\* path_exists, path_is_directory, path_is_file of the path of an entry.
path_exists(n) == Resolve(n) # 0
path_is_directory(n) == Resolve(n) # 0 /\ tree[Resolve(n)].kind = "dir"
path_is_file(n) == Resolve(n) # 0 /\ tree[Resolve(n)].kind = "file"

\* The paths a walk is started on: the tree, a regular file, nothing.
RootPaths ==
    {[path |-> <<"r">>, node |-> 1],
     [path |-> <<"r", "/", "a", ".", "p", "y">>, node |-> 2],
     [path |-> <<"z", "z">>, node |-> 0]}
\* The extension lists a walk is configured with.
ExtensionLists == {<<>>, <<<<"p", "y">>>>}
WalkerConfigs ==
    [follow_symlinks : BOOLEAN, respect_gitignore : {TRUE},
     max_depth : 0..MaxDepth, extensions : ExtensionLists]
\* What fails in a walk: opendir on some directories, lstat on some entries.
FailurePoints ==
    {<<"opendir", n>> : n \in Dirs} \cup
    {<<"lstat", n>> : n \in TreeNodes \ {RootNode}}
RECURSIVE SubsetsUpTo(_, _)
SubsetsUpTo(S, k) ==
    IF k = 0 THEN {{}}
    ELSE LET smaller == SubsetsUpTo(S, k - 1)
         IN  smaller \cup {s \cup {x} : s \in smaller, x \in S}
WalkerEnvs ==
    {[noopen |-> {p[2] : p \in {q \in F : q[1] = "opendir"}},
      nolstat |-> {p[2] : p \in {q \in F : q[1] = "lstat"}}] :
        F \in SubsetsUpTo(FailurePoints, MaxFail)}

Bump(stats, field) == [stats EXCEPT ![field] = @ + 1]
\* A changed opendir failure: the walk gives up, no frame is left.
opendir_failed_aborts(w) == [w EXCEPT !.stack = <<>>, !.stats = Bump(w.stats, "errors")]
\* walk_recursive when opendir fails: count the error and return.
opendir_failed(w) == [w EXCEPT !.stats = Bump(w.stats, "errors")]
\* walk_recursive as it would be without the depth check.
walk_recursive_unlimited(dirpath, dir, config, env, current_depth, w) ==
    IF dir \in env.noopen THEN opendir_failed(w)
    ELSE [stack |-> Append(w.stack, [dirpath |-> dirpath, dir |-> dir,
                                     depth |-> current_depth,
                                     todo |-> readdir(dir)]),
          stats |-> Bump(w.stats, "directories_visited"),
          opened |-> Append(w.opened, dirpath),
          visited |-> w.visited]
\* walk_recursive as it would be if the depth check let one more level in.
walk_recursive_one_deeper(dirpath, dir, config, env, current_depth, w) ==
    IF config.max_depth > 0 /\ current_depth > config.max_depth THEN w
    ELSE IF dir \in env.noopen THEN opendir_failed(w)
    ELSE [stack |-> Append(w.stack, [dirpath |-> dirpath, dir |-> dir,
                                     depth |-> current_depth,
                                     todo |-> readdir(dir)]),
          stats |-> Bump(w.stats, "directories_visited"),
          opened |-> Append(w.opened, dirpath),
          visited |-> w.visited]
\* walk_recursive up to its loop: the depth check, opendir, and the frame that
\* reads the directory. w holds the frames, the statistics and the opened paths.
walk_recursive(dirpath, dir, config, env, current_depth, w) ==
    IF config.max_depth > 0 /\ current_depth >= config.max_depth THEN w
    ELSE IF dir \in env.noopen THEN opendir_failed(w)
    ELSE [stack |-> Append(w.stack, [dirpath |-> dirpath, dir |-> dir,
                                     depth |-> current_depth,
                                     todo |-> readdir(dir)]),
          stats |-> Bump(w.stats, "directories_visited"),
          opened |-> Append(w.opened, dirpath),
          visited |-> w.visited]
\* A regular file, or a link to one: count it, filter it, call back.
scan_file(fullpath, config, w) ==
    IF matches_extensions(fullpath, config)
    THEN [w EXCEPT !.stats = Bump(Bump(w.stats, "files_scanned"), "files_matched"),
                   !.visited = Append(w.visited, fullpath)]
    ELSE [w EXCEPT !.stats = Bump(w.stats, "files_scanned")]
\* A changed link policy: links are always followed.
follows_always(config) == TRUE
\* Whether the walk looks through a symbolic link.
follows(config) == config.follow_symlinks
\* One pass of the loop of walk_recursive on entry name of the top frame; w
\* already has the entry taken off the frame.
loop_body(name, top, config, env, w) ==
    LET fullpath == path_join(top.dirpath, name)
        n == Child(top.dir, name)
    IN  IF name = Dot \/ name = DotDot THEN [w |-> w, step |-> "dot"]
        ELSE IF should_ignore_builtin(name)
        THEN [w |-> [w EXCEPT !.stats = Bump(w.stats, "files_ignored")],
              step |-> "ignored"]
        ELSE IF n \in env.nolstat
        THEN [w |-> [w EXCEPT !.stats = Bump(w.stats, "errors")],
              step |-> "lstat_failed"]
        ELSE IF tree[n].kind = "dir"
        THEN [w |-> walk_recursive(fullpath, n, config, env, top.depth + 1, w),
              step |-> "dir"]
        ELSE IF tree[n].kind = "file"
        THEN [w |-> scan_file(fullpath, config, w), step |-> "file"]
        ELSE IF tree[n].kind = "link" /\ follows(config)
        THEN [w |-> IF path_is_directory(n)
                    THEN walk_recursive(fullpath, Resolve(n), config, env,
                                        top.depth + 1, w)
                    ELSE IF path_is_file(n) THEN scan_file(fullpath, config, w)
                    ELSE w,
              step |-> "link"]
        ELSE [w |-> w, step |-> "skipped"]

WalkNow == [stack |-> wstack, stats |-> g_stats, opened |-> opened,
            visited |-> visited]
\* The walk after a step: walker_walk returns true once no frame is left.
WalkBecomes(w, returned, ret) ==
    /\ wstack' = w.stack
    /\ g_stats' = w.stats
    /\ opened' = w.opened
    /\ visited' = w.visited
    /\ wstate' = IF returned THEN "returned" ELSE "walking"
    /\ wret' = ret

\* A walker_walk that leaves the statistics as it finds them.
memset_skipped(stats) == stats
\* memset(&g_stats, 0, sizeof(g_stats)).
memset_stats(stats) == ZeroStats
\* walker_walk up to the first directory read, from the memset on.  The step
\* keeps the statistics it found.
StartWalk(root, config, env) ==
    /\ wconfig' = config
    /\ wenv' = env
    /\ LET zero == [stack |-> <<>>, stats |-> memset_stats(g_stats),
                    opened |-> <<>>, visited |-> <<>>]
       IN  IF ~path_exists(root.node) \/ ~path_is_directory(root.node)
           THEN /\ WalkBecomes(zero, TRUE, FALSE)
                /\ wlast' = [step |-> "no_root", path |-> root.path,
                             node |-> root.node, depth |-> 0,
                             found |-> g_stats]
           ELSE \E w \in {walk_recursive(root.path, Resolve(root.node), config,
                                         env, 0, zero)} :
                    /\ WalkBecomes(w, w.stack = <<>>, TRUE)
                    /\ wlast' = [step |-> "root", path |-> root.path,
                                 node |-> root.node, depth |-> 0,
                                 found |-> g_stats]
    /\ UNCHANGED nonWalker
\* The first walker_walk of a behaviour.
WalkerWalk(root, config, env) ==
    /\ wstate = "idle"
    /\ StartWalk(root, config, env)
\* A walker_walk after an earlier one has returned.
WalkAgain(root, config, env) ==
    /\ wstate = "returned"
    /\ StartWalk(root, config, env)
\* walker_walk with a NULL root_path, config or callback: false is returned
\* before anything is touched.
WalkNullArgument ==
    /\ wstate = "returned"
    /\ wlast.step # "null"
    /\ wret' = FALSE
    /\ wlast' = [step |-> "null", path |-> <<>>, node |-> 0, depth |-> 0,
                 found |-> g_stats]
    /\ UNCHANGED <<wstate, wconfig, wenv, wstack, g_stats, visited, opened,
                   nonWalker>>

\* readdir returns an entry: one pass of the loop.
ReadEntry ==
    /\ wstate = "walking"
    /\ wstack # <<>>
    /\ wstack[Len(wstack)].todo # <<>>
    /\ LET top == wstack[Len(wstack)]
           name == Head(top.todo)
           taken == [WalkNow EXCEPT !.stack[Len(wstack)].todo = Tail(top.todo)]
       IN  \E did \in {loop_body(name, top, wconfig, wenv, taken)} :
           /\ WalkBecomes(did.w, FALSE, wret)
           /\ wlast' = [step |-> did.step, path |-> path_join(top.dirpath, name),
                        node |-> IF did.step = "dot" THEN 0
                                 ELSE Child(top.dir, name),
                        depth |-> top.depth]
    /\ UNCHANGED <<wconfig, wenv, nonWalker>>

\* readdir returns NULL: closedir; the walk is over when it was the root.
CloseDir ==
    /\ wstate = "walking"
    /\ wstack # <<>>
    /\ wstack[Len(wstack)].todo = <<>>
    /\ LET top == wstack[Len(wstack)]
           popped == [WalkNow EXCEPT !.stack = SubSeq(wstack, 1, Len(wstack) - 1)]
       IN  /\ WalkBecomes(popped, Len(wstack) = 1, wret)
           /\ wlast' = [step |-> "closedir", path |-> top.dirpath,
                        node |-> top.dir, depth |-> top.depth]
    /\ UNCHANGED <<wconfig, wenv, nonWalker>>

InitWalk ==
    /\ InitManifest
NextWalk ==
    \/ /\ wstate = "idle"
       /\ \E root \in RootPaths, config \in WalkerConfigs, env \in WalkerEnvs :
              WalkerWalk(root, config, env)
    \/ ReadEntry
    \/ CloseDir
SpecWalk == InitWalk /\ [][NextWalk]_vars

\* ---------------------------------------------------------------------------
\* What a walk is expected to do, stated on the tree and not on the loop.
\* ---------------------------------------------------------------------------

\* The entries from below the root down to n, n included.
RECURSIVE Chain(_)
Chain(n) == IF n = RootNode THEN {} ELSE Chain(tree[n].parent) \cup {n}
\* The directories that have to be opened to get to n.
Above(n) == {tree[m].parent : m \in Chain(n)}
RECURSIVE PathOf(_)
PathOf(n) ==
    IF n = RootNode THEN tree[n].name
    ELSE PathOf(tree[n].parent) \o <<"/">> \o tree[n].name
\* The names the built-in list excludes: whole names and compiled suffixes.
IgnoredNames ==
    {<<".", "g", "i", "t">>,
     <<".", "s", "v", "n">>,
     <<".", "h", "g">>,
     <<"n", "o", "d", "e", "_", "m", "o", "d", "u", "l", "e", "s">>,
     <<"_", "_", "p", "y", "c", "a", "c", "h", "e", "_", "_">>,
     <<".", "p", "y", "t", "e", "s", "t", "_", "c", "a", "c", "h", "e">>,
     <<".", "m", "y", "p", "y", "_", "c", "a", "c", "h", "e">>,
     <<"v", "e", "n", "v">>,
     <<".", "v", "e", "n", "v">>,
     <<"e", "n", "v">>,
     <<".", "e", "n", "v">>,
     <<"b", "u", "i", "l", "d">>,
     <<"d", "i", "s", "t">>,
     <<".", "D", "S", "_", "S", "t", "o", "r", "e">>,
     <<".", "s", "o">>,
     <<".", "d", "y", "l", "i", "b">>}
IgnoredSuffixes == {<<".", "p", "y", "c">>, <<".", "p", "y", "o">>, <<".", "p", "y", "d">>}
HasSuffix(name, suffix) ==
    /\ Len(name) >= Len(suffix)
    /\ SubSeq(name, Len(name) - Len(suffix) + 1, Len(name)) = suffix
NameIgnored(name) ==
    \/ name \in IgnoredNames
    \/ \E suffix \in IgnoredSuffixes : HasSuffix(name, suffix)
\* The extension of a name is in the allow-list; an empty list allows all.
ExtensionAllowed(name, extensions) ==
    \/ extensions = <<>>
    \/ \E k \in 1..Len(name) :
           /\ name[k] = "."
           /\ \A j \in (k + 1)..Len(name) : name[j] # "."
           /\ SubSeq(name, k + 1, Len(name)) \in Range(extensions)
\* n lies within the depth limit: at most max_depth names below the root.
WithinDepth(n, config) ==
    config.max_depth = 0 \/ Cardinality(Chain(n)) <= config.max_depth
NoIgnoredName(n) == \A m \in Chain(n) : ~NameIgnored(tree[m].name)
\* Nothing on the way to n failed: every directory opened, every lstat worked.
Reachable(n, env) ==
    /\ Above(n) \cap env.noopen = {}
    /\ Chain(n) \cap env.nolstat = {}
\* The regular files a walk that follows no link has to pass to the callback.
Wanted(config, env) ==
    {n \in TreeNodes :
        /\ tree[n].kind = "file"
        /\ WithinDepth(n, config)
        /\ NoIgnoredName(n)
        /\ ExtensionAllowed(tree[n].name, config.extensions)
        /\ Reachable(n, env)}
NoDuplicates(seq) == \A i, j \in 1..Len(seq) : seq[i] = seq[j] => i = j
Walked == wstate = "returned" /\ wret

OpendirFailsNow ==
    /\ wlast'.step \in {"root", "dir", "link"}
    /\ wlast'.step = "link" => wconfig'.follow_symlinks
    /\ path_is_directory(wlast'.node)
    /\ Resolve(wlast'.node) \in wenv'.noopen
    /\ LET depth == IF wlast'.step = "root" THEN 0 ELSE wlast'.depth + 1
       IN  wconfig'.max_depth = 0 \/ depth < wconfig'.max_depth
\* C19: when opendir fails, errors goes up by exactly one and nothing else is
\* counted, opened or called back; the frame of the parent directory goes on
\* with its remaining entries; a walk of a directory returns true, having
\* called back for every wanted file not below a directory that failed.
C19_OpendirFailureSkipsSubtree ==
    /\ []((wstate = "returned" /\ wlast.step # "no_root") =>
             /\ wret
             /\ {PathOf(n) : n \in Wanted(wconfig, wenv)} \subseteq Range(visited))
    /\ [][OpendirFailsNow =>
             IF wlast'.step = "root"
             THEN /\ g_stats' = [ZeroStats EXCEPT !.errors = 1]
                  /\ visited' = <<>> /\ opened' = <<>> /\ wstack' = <<>>
                  /\ wstate' = "returned" /\ wret'
             ELSE /\ g_stats' = [g_stats EXCEPT !.errors = @ + 1]
                  /\ visited' = visited /\ opened' = opened
                  /\ wstate' = "walking"
                  /\ wstack' = [wstack EXCEPT ![Len(wstack)].todo = Tail(@)]
                  /\ wstack'[Len(wstack)].dirpath # wlast'.path]_vars
\* C19: opendir failed on r/pkg; the walk went on to r/n.md, the entry of the
\* root after pkg, and returned true with one error.
C19_Witness ==
    /\ Walked
    /\ wenv = [noopen |-> {5}, nolstat |-> {}]
    /\ ~wconfig.follow_symlinks
    /\ g_stats.errors = 1
    /\ g_stats.directories_visited = 1
    /\ visited = <<<<"r", "/", "a", ".", "p", "y">>, <<"r", "/", "n", ".", "m", "d">>>>

\* The step just taken read a symbolic link from a directory.
LinkReadNow ==
    /\ wlast'.step \in {"ignored", "lstat_failed", "link", "skipped"}
    /\ tree[wlast'.node].kind = "link"
\* The frames with the entry just read taken off the top one.
EntryTaken == [wstack EXCEPT ![Len(wstack)].todo = Tail(@)]
\* C20: with follow_symlinks false a link read from a directory is never
\* opened, passed to the callback or counted in files_scanned, so only
\* directories are opened and only regular files are passed on; with
\* follow_symlinks true a link whose name is not ignored and whose lstat worked
\* is handled as what it points to: a directory is entered at depth + 1 under
\* the depth limit (opened, or counted as an error), a regular file is counted
\* in files_scanned and passed to the callback when its extension is allowed,
\* and a link to nothing changes nothing.
C20_LinksFollowedOnlyWhenAsked ==
    /\ [](~wconfig.follow_symlinks =>
             /\ Range(opened) \subseteq {PathOf(d) : d \in Dirs}
             /\ Range(visited) \subseteq
                    {PathOf(n) : n \in {m \in TreeNodes : tree[m].kind = "file"}}
             /\ g_stats.files_scanned <=
                    Cardinality({m \in TreeNodes : tree[m].kind = "file"}))
    /\ [][LinkReadNow =>
             LET n == wlast'.node
                 t == tree[n].target
                 depth == wlast'.depth + 1
                 untouched == /\ visited' = visited
                              /\ opened' = opened
                              /\ wstack' = EntryTaken
             IN  IF ~wconfig.follow_symlinks
                 THEN /\ untouched
                      /\ g_stats'.files_scanned = g_stats.files_scanned
                      /\ g_stats'.files_matched = g_stats.files_matched
                      /\ g_stats'.directories_visited = g_stats.directories_visited
                 ELSE IF NameIgnored(tree[n].name) \/ n \in wenv.nolstat
                 THEN untouched
                 ELSE IF t # 0 /\ tree[t].kind = "dir"
                 THEN IF wconfig.max_depth > 0 /\ depth >= wconfig.max_depth
                      THEN untouched /\ g_stats' = g_stats
                      ELSE IF t \in wenv.noopen
                      THEN untouched /\ g_stats' = Bump(g_stats, "errors")
                      ELSE /\ visited' = visited
                           /\ opened' = Append(opened, wlast'.path)
                           /\ g_stats' = Bump(g_stats, "directories_visited")
                           /\ Len(wstack') = Len(wstack) + 1
                           /\ SubSeq(wstack', 1, Len(wstack)) = EntryTaken
                           /\ wstack'[Len(wstack')].dirpath = wlast'.path
                           /\ wstack'[Len(wstack')].dir = t
                           /\ wstack'[Len(wstack')].depth = depth
                 ELSE IF t # 0 /\ tree[t].kind = "file"
                 THEN /\ opened' = opened
                      /\ wstack' = EntryTaken
                      /\ IF ExtensionAllowed(tree[n].name, wconfig.extensions)
                         THEN /\ visited' = Append(visited, wlast'.path)
                              /\ g_stats' = Bump(Bump(g_stats, "files_scanned"),
                                                 "files_matched")
                         ELSE /\ visited' = visited
                              /\ g_stats' = Bump(g_stats, "files_scanned")
                 ELSE untouched /\ g_stats' = g_stats]_vars
\* C20: a walk that follows links has returned; it went through r/lnk into
\* pkg one level down and passed the link r/pkg/sub/f.py to the callback.
C20_Witness ==
    /\ Walked
    /\ wconfig.follow_symlinks
    /\ wconfig.extensions = <<<<"p", "y">>>>
    /\ wconfig.max_depth = 0
    /\ wenv = [noopen |-> {}, nolstat |-> {}]
    /\ visited = <<<<"r", "/", "a", ".", "p", "y">>,
                 <<"r", "/", "p", "k", "g", "/", "d", ".", "p", "y">>,
                 <<"r", "/", "p", "k", "g", "/", "s", "u", "b", "/", "e", ".", "p", "y">>,
                 <<"r", "/", "p", "k", "g", "/", "s", "u", "b", "/", "f", ".", "p", "y">>,
                 <<"r", "/", "l", "n", "k", "/", "d", ".", "p", "y">>,
                 <<"r", "/", "l", "n", "k", "/", "s", "u", "b", "/", "e", ".", "p", "y">>,
                 <<"r", "/", "l", "n", "k", "/", "s", "u", "b", "/", "f", ".", "p", "y">>>>
    /\ opened = <<<<"r">>, <<"r", "/", "p", "k", "g">>, <<"r", "/", "p", "k", "g", "/", "s", "u", "b">>, <<"r", "/", "l", "n", "k">>, <<"r", "/", "l", "n", "k", "/", "s", "u", "b">>>>
    /\ g_stats.files_scanned = 8

\* ---------------------------------------------------------------------------
\* The parser pool (src/src/core/parser_pool.c).
\* ---------------------------------------------------------------------------

\* Calls on the pool in one behaviour.
PoolCalls == 10
\* The language arguments of parser_pool_acquire; "" stands for NULL.
LanguageArgs == {"python", "ruby", ""}
\* A pointer that is no parser of the pool.
ForeignParser == 99
Slots(p) == 0..(p.count - 1)

\* The parsers of the pool, in use or not.
PoolParsers(p) == {p.parsers[i] : i \in Slots(p)}
\* A pass of the loop of parser_pool_init that leaves in_use[i] as it is.
init_slot_keeps_flag(p, i, parser) ==
    [p EXCEPT !.parsers[i] = parser, !.count = @ + 1]
\* One pass of the loop of parser_pool_init after ts_parser_new: slot i gets
\* the parser.
init_slot(p, i, parser) ==
    [p EXCEPT !.parsers[i] = parser, !.in_use[i] = FALSE, !.count = @ + 1]
\* parser_pool_shutdown.
parser_pool_shutdown(p) ==
    IF ~p.initialized THEN p
    ELSE [p EXCEPT !.parsers = [i \in DOMAIN p.parsers |->
                                   IF i \in Slots(p) THEN 0 ELSE p.parsers[i]],
                   !.count = 0,
                   !.initialized = FALSE]
\* parser_pool_init: two parsers to start with. ts_parser_new aborts rather
\* than return NULL; ts_parser_set_language fails for a grammar of another ABI,
\* that is on the first parser, which is deleted.
parser_pool_init(p, ok, next) ==
    IF p.initialized THEN [p |-> p, ok |-> TRUE, made |-> 0]
    ELSE LET q == [p EXCEPT !.language = TRUE]
         IN  IF ~ok
             THEN [p |-> parser_pool_shutdown(q), ok |-> FALSE, made |-> 1]
             ELSE [p |-> [init_slot(init_slot(q, 0, next), 1, next + 1)
                             EXCEPT !.initialized = TRUE],
                   ok |-> TRUE, made |-> 2]
\* The first slot below count that is not in use; count when there is none.
first_free(p) ==
    IF \E i \in Slots(p) : ~p.in_use[i]
    THEN CHOOSE i \in Slots(p) :
             ~p.in_use[i] /\ \A j \in Slots(p) : ~p.in_use[j] => i <= j
    ELSE p.count
\* A changed growth test: one slot too many.
pool_has_room_one_more(p) == p.count <= MAX_PARSERS
\* if (pool_state.count < MAX_PARSERS).
pool_has_room(p) == p.count < MAX_PARSERS
\* parser_pool_acquire: what the pool becomes, the parser returned (0: NULL)
\* and how many times ts_parser_new was called.
parser_pool_acquire(p, language, ok, next) ==
    LET init == IF ~p.initialized THEN parser_pool_init(p, ok, next)
                ELSE [p |-> p, ok |-> TRUE, made |-> 0]
        q == init.p
        i == first_free(q)
        parser == next + init.made
    IN  IF ~init.ok THEN [p |-> q, ret |-> 0, made |-> init.made]
        ELSE IF language # "" /\ language # "python"
        THEN [p |-> q, ret |-> 0, made |-> init.made]
        ELSE IF i < q.count
        THEN [p |-> [q EXCEPT !.in_use[i] = TRUE], ret |-> q.parsers[i],
              made |-> init.made]
        ELSE IF pool_has_room(q)
        THEN IF ~ok THEN [p |-> q, ret |-> 0, made |-> init.made + 1]
             ELSE [p |-> [q EXCEPT !.parsers[q.count] = parser,
                                   !.in_use[q.count] = TRUE,
                                   !.count = @ + 1],
                   ret |-> parser, made |-> init.made + 1]
        ELSE [p |-> q, ret |-> 0, made |-> init.made]
\* parser_pool_release: the first slot with the parser is no longer in use.
parser_pool_release(p, parser) ==
    IF parser = 0 THEN p
    ELSE IF \E i \in Slots(p) : p.parsers[i] = parser
    THEN LET i == CHOOSE k \in Slots(p) :
                      /\ p.parsers[k] = parser
                      /\ \A j \in Slots(p) : p.parsers[j] = parser => k <= j
         IN  [p EXCEPT !.in_use[i] = FALSE]
    ELSE p

PoolCalled(op, language, parser, ret, ok, made) ==
    /\ plast' = [op |-> op, language |-> language, parser |-> parser,
                 ret |-> ret, ok |-> ok, made |-> made]
    /\ nextParser' = nextParser + made
    /\ pcalls' = pcalls - 1
    /\ UNCHANGED <<abi_ok, threads, nonPool>>

\* A call of parser_pool_init.
PoolInit ==
    /\ pcalls > 0
    /\ \E r \in {parser_pool_init(pool_state, abi_ok, nextParser)} :
           /\ pool_state' = r.p
           /\ pheld' = pheld
           /\ PoolCalled("init", "", 0, 0, r.ok, r.made)
\* A call of parser_pool_acquire; the caller holds the parser it gets.
PoolAcquire(language) ==
    /\ pcalls > 0
    /\ \E r \in {parser_pool_acquire(pool_state, language, abi_ok, nextParser)} :
           /\ pool_state' = r.p
           /\ pheld' = IF r.ret = 0 THEN pheld ELSE pheld \cup {r.ret}
           /\ PoolCalled("acquire", language, 0, r.ret, r.ret # 0, r.made)
\* A call of parser_pool_release: on a parser the caller holds, on NULL, or on
\* a pointer that never came from the pool.
PoolRelease(parser) ==
    /\ pcalls > 0
    /\ pool_state' = parser_pool_release(pool_state, parser)
    /\ pheld' = pheld \ {parser}
    /\ PoolCalled("release", "", parser, 0, TRUE, 0)
\* A call of parser_pool_shutdown: the parsers are deleted, nobody may go on
\* using one.
PoolShutdown ==
    /\ pcalls > 0
    /\ pool_state' = parser_pool_shutdown(pool_state)
    /\ pheld' = IF pool_state.initialized THEN {} ELSE pheld
    /\ PoolCalled("shutdown", "", 0, 0, TRUE, 0)

InitPool ==
    /\ AllIdleBut("pool")
    /\ PoolStart(PoolCalls)
    /\ abi_ok \in BOOLEAN
NextPool ==
    \/ PoolInit
    \/ \E language \in LanguageArgs : PoolAcquire(language)
    \/ \E parser \in pheld \cup PoolParsers(pool_state) \cup {0, ForeignParser} :
           PoolRelease(parser)
    \/ PoolShutdown
SpecPool == InitPool /\ [][NextPool]_vars

AllInUse(p) == \A i \in Slots(p) : p.in_use[i]
\* C21: the pool never holds more than MAX_PARSERS parsers; a call of
\* parser_pool_acquire makes the pool grow only when every parser it has is in
\* use; with all MAX_PARSERS in use it returns NULL and leaves the pool as it
\* was.
C21_PoolBoundedLazyGrowth ==
    /\ [](/\ pool_state.count <= MAX_PARSERS
          /\ Cardinality({i \in DOMAIN pool_state.parsers :
                             pool_state.parsers[i] # 0}) <= MAX_PARSERS)
    /\ [][(pcalls' = pcalls - 1 /\ plast'.op = "acquire") =>
             /\ pool_state'.count > pool_state.count => AllInUse(pool_state)
             /\ (/\ pool_state.initialized
                 /\ pool_state.count = MAX_PARSERS
                 /\ AllInUse(pool_state)) =>
                    /\ plast'.ret = 0
                    /\ pool_state' = pool_state
                    /\ nextParser' = nextParser
                    /\ pheld' = pheld]_vars
\* C21: with all eight parsers handed out, parser_pool_acquire("python") has
\* returned NULL.
C21_Witness ==
    /\ plast.op = "acquire"
    /\ plast.language = "python"
    /\ plast.ret = 0
    /\ pool_state.initialized
    /\ pool_state.count = MAX_PARSERS
    /\ AllInUse(pool_state)
    /\ Cardinality(pheld) = MAX_PARSERS

\* ---------------------------------------------------------------------------
\* Two threads in parser_pool_acquire and parser_pool_release. The functions
\* take no lock, so the threads interleave at every read and write of
\* pool_state.
\* ---------------------------------------------------------------------------

\* Calls the two threads make on the pool in one behaviour.
ThreadCalls == 3
\* The parser in slot i of a pool that only the main thread has used.
ParserAt(i) == i + 1
\* The pools one thread can have left behind: initialized, count parsers, any
\* of them in use.
PoolsAfterUse ==
    {[parsers |-> [i \in 0..(MAX_PARSERS - 1) |->
                      IF i < n THEN ParserAt(i) ELSE 0],
      in_use |-> [i \in 0..(MAX_PARSERS - 1) |-> i < used],
      language |-> TRUE, count |-> n, initialized |-> TRUE] :
        n \in 2..MAX_PARSERS, used \in 0..MAX_PARSERS}
\* Once count has passed MAX_PARSERS the loops read outside the arrays, which
\* is undefined: such a behaviour is not followed further.
InsideArrays == pool_state.count <= MAX_PARSERS
ThreadDoes(t, pc, i, arg, holds) ==
    /\ threads' = [threads EXCEPT ![t] =
                      [pc |-> pc, i |-> i, arg |-> arg, holds |-> holds]]
    /\ UNCHANGED <<abi_ok, pheld, nonPool>>
ThreadReturns(t, op, parser, ret, holds) ==
    /\ ThreadDoes(t, "idle", 0, 0, holds)
    /\ plast' = [op |-> op, language |-> "python", parser |-> parser,
                 ret |-> ret, ok |-> TRUE, made |-> 0]

\* parser_pool_acquire("python") is entered: the pool is initialized, the
\* language is supported, the loop starts at slot 0.
AcquireEnter(t) ==
    /\ threads[t].pc = "idle"
    /\ InsideArrays
    /\ pcalls > 0
    /\ pool_state.initialized
    /\ pcalls' = pcalls - 1
    /\ ThreadDoes(t, "scan", 0, 0, threads[t].holds)
    /\ UNCHANGED <<pool_state, nextParser, plast>>
\* for (i < pool_state.count) if (!pool_state.in_use[i]): the reads.
AcquireScan(t) ==
    /\ threads[t].pc = "scan"
    /\ InsideArrays
    /\ LET i == threads[t].i
       IN  IF i < pool_state.count
           THEN IF ~pool_state.in_use[i]
                THEN ThreadDoes(t, "take", i, 0, threads[t].holds)
                ELSE ThreadDoes(t, "scan", i + 1, 0, threads[t].holds)
           ELSE ThreadDoes(t, "grow", i, 0, threads[t].holds)
    /\ UNCHANGED <<pool_state, nextParser, plast, pcalls>>
\* pool_state.in_use[i] = true; return pool_state.parsers[i].
AcquireTake(t) ==
    /\ threads[t].pc = "take"
    /\ InsideArrays
    /\ LET i == threads[t].i
       IN  /\ pool_state' = [pool_state EXCEPT !.in_use[i] = TRUE]
           /\ ThreadReturns(t, "acquire", 0, pool_state.parsers[i],
                            threads[t].holds \cup {pool_state.parsers[i]})
    /\ UNCHANGED <<nextParser, pcalls>>
\* if (pool_state.count < MAX_PARSERS) ts_parser_new(), or return NULL.
AcquireGrow(t) ==
    /\ threads[t].pc = "grow"
    /\ InsideArrays
    /\ IF pool_has_room(pool_state)
       THEN /\ ThreadDoes(t, "store", 0, nextParser, threads[t].holds)
            /\ nextParser' = nextParser + 1
            /\ plast' = plast
       ELSE /\ ThreadReturns(t, "acquire", 0, 0, threads[t].holds)
            /\ nextParser' = nextParser
    /\ UNCHANGED <<pool_state, pcalls>>
\* idx = pool_state.count; parsers[idx] = parser; in_use[idx] = true; count++.
AcquireStore(t) ==
    /\ threads[t].pc = "store"
    /\ InsideArrays
    /\ LET idx == pool_state.count
           parser == threads[t].arg
       IN  /\ pool_state' =
                  IF idx < MAX_PARSERS
                  THEN [pool_state EXCEPT !.parsers[idx] = parser,
                                          !.in_use[idx] = TRUE,
                                          !.count = @ + 1]
                  ELSE [pool_state EXCEPT !.count = @ + 1]
           /\ ThreadReturns(t, "acquire", 0, parser,
                            threads[t].holds \cup {parser})
    /\ UNCHANGED <<nextParser, pcalls>>
\* parser_pool_release(parser) is entered with a parser the thread holds.
ReleaseEnter(t, parser) ==
    /\ threads[t].pc = "idle"
    /\ InsideArrays
    /\ pcalls > 0
    /\ parser \in threads[t].holds
    /\ pcalls' = pcalls - 1
    /\ ThreadDoes(t, "find", 0, parser, threads[t].holds)
    /\ UNCHANGED <<pool_state, nextParser, plast>>
\* for (i < pool_state.count) if (pool_state.parsers[i] == parser)
\* in_use[i] = false: one pass, or the end of the loop.
ReleaseFind(t) ==
    /\ threads[t].pc = "find"
    /\ InsideArrays
    /\ LET i == threads[t].i
           parser == threads[t].arg
       IN  IF i < pool_state.count /\ pool_state.parsers[i] # parser
           THEN /\ ThreadDoes(t, "find", i + 1, parser, threads[t].holds)
                /\ UNCHANGED <<pool_state, plast>>
           ELSE /\ pool_state' =
                       IF i < pool_state.count
                       THEN [pool_state EXCEPT !.in_use[i] = FALSE]
                       ELSE pool_state
                /\ ThreadReturns(t, "release", parser, 0,
                                 threads[t].holds \ {parser})
    /\ UNCHANGED <<nextParser, pcalls>>

InitThreads ==
    /\ AllIdleBut("pool")
    /\ abi_ok = TRUE
    /\ pool_state \in PoolsAfterUse
    /\ \A i \in 0..(MAX_PARSERS - 1) :
           pool_state.in_use[i] => i < pool_state.count
    /\ pheld = {pool_state.parsers[i] : i \in {j \in Slots(pool_state) :
                                                  pool_state.in_use[j]}}
    /\ nextParser = MAX_PARSERS + 1
    /\ plast = NoPoolCall
    /\ pcalls = ThreadCalls
    /\ threads = [t \in Threads |-> NotCalling]
NextThreads ==
    \/ \E t \in Threads : AcquireEnter(t)
    \/ \E t \in Threads : AcquireScan(t)
    \/ \E t \in Threads : AcquireTake(t)
    \/ \E t \in Threads : AcquireGrow(t)
    \/ \E t \in Threads : AcquireStore(t)
    \/ \E t \in Threads : \E parser \in threads[t].holds : ReleaseEnter(t, parser)
    \/ \E t \in Threads : ReleaseFind(t)
SpecThreads == InitThreads /\ [][NextThreads]_vars

\* C22: whatever the interleaving of two threads in parser_pool_acquire and
\* parser_pool_release, no parser is held by two holders at once (the two
\* threads, or a thread and the holder of a parser that was in use before) and
\* count stays at most MAX_PARSERS.
C22_AcquireReleaseExclusive ==
    /\ pool_state.count <= MAX_PARSERS
    /\ threads["t1"].holds \cap threads["t2"].holds = {}
    /\ \A t \in Threads : threads[t].holds \cap pheld = {}

\* ---------------------------------------------------------------------------
\* The plugin registry (src/src/lang/registry.c).
\* ---------------------------------------------------------------------------

\* Calls on the registry in one behaviour.
RegistryCalls == 4
\* Plugins a registry may already hold when the behaviour starts.
Fillers == 14
FillerLetters == <<"a", "b", "c", "d", "e", "f", "g", "h", "i", "j", "k", "l",
                   "m", "n", "o", "p">>
NamePy == <<"p", "y">>
NameCapPy == <<"P", "y">>
NameJs == <<"j", "s">>
NameGo == <<"g", "o">>
\* The LanguagePlugin structs (plugin.h:38-57) by address: the python plugin,
\* one whose name differs from it only in case, another struct named like the
\* python plugin, one whose init fails, one with neither init nor
\* supports_file, and plugins of other languages that support no file here.
Plugin(id) ==
    CASE id = 1 -> [name |-> NamePy, init |-> "true", supports |-> TRUE,
                    extensions |-> python_extensions]
      [] id = 2 -> [name |-> NameCapPy, init |-> "true", supports |-> TRUE,
                    extensions |-> {<<"p", "y">>, <<"m", "d">>}]
      [] id = 3 -> [name |-> NamePy, init |-> "true", supports |-> TRUE,
                    extensions |-> {<<"m", "d">>}]
      [] id = 4 -> [name |-> NameJs, init |-> "false", supports |-> TRUE,
                    extensions |-> {<<"m", "d">>}]
      [] id = 5 -> [name |-> NameGo, init |-> "null", supports |-> FALSE,
                    extensions |-> {}]
      [] OTHER -> [name |-> <<"f", FillerLetters[id - 5]>>, init |-> "true",
                   supports |-> TRUE, extensions |-> {}]
\* The plugins a behaviour registers; 0 is NULL.
PluginArgs == 0..5
\* plugin->supports_file(filepath): by extension, as python_supports_file.
supports_file(id, filepath) ==
    LET ext == path_get_extension(filepath)
    IN  ext # NullStr /\ ext \in Plugin(id).extensions
\* tolower on the letters of the names.
tolower(c) == IF c = "P" THEN "p" ELSE IF c = "Y" THEN "y" ELSE c
\* strcasecmp(a, b) == 0.
strcasecmp_eq(a, b) ==
    /\ Len(a) = Len(b)
    /\ \A k \in 1..Len(a) : tolower(a[k]) = tolower(b[k])
\* The first slot below count that passes a test; count when none does.
FirstSlot(r, Test(_)) ==
    IF \E i \in 0..(r.count - 1) : Test(r.plugins[i])
    THEN CHOOSE i \in 0..(r.count - 1) :
             Test(r.plugins[i]) /\ \A j \in 0..(i - 1) : ~Test(r.plugins[j])
    ELSE r.count
\* A changed duplicate check: no name is taken.
name_registered_never(r, name) == FALSE
\* The duplicate check of plugin_registry_register: strcmp on the names.
name_registered(r, name) ==
    \E i \in 0..(r.count - 1) : Plugin(r.plugins[i]).name = name
\* plugin_registry_register: the registry after the call, what it returned and
\* what the plugin's init returned when it was called.
plugin_registry_register(r, plugin) ==
    IF plugin = 0 THEN [r |-> r, ret |-> FALSE, init |-> "none"]
    ELSE IF r.count >= MAX_PLUGINS THEN [r |-> r, ret |-> FALSE, init |-> "none"]
    ELSE IF name_registered(r, Plugin(plugin).name)
    THEN [r |-> r, ret |-> FALSE, init |-> "none"]
    ELSE IF Plugin(plugin).init = "false"
    THEN [r |-> r, ret |-> FALSE, init |-> "false"]
    ELSE [r |-> [r EXCEPT !.plugins[r.count] = plugin, !.count = @ + 1],
          ret |-> TRUE,
          init |-> IF Plugin(plugin).init = "null" THEN "none" ELSE "true"]
\* plugin_registry_get: the first plugin whose name is the language up to case.
plugin_registry_get(r, language) ==
    IF language = NullStr THEN 0
    ELSE LET Named(id) == strcasecmp_eq(Plugin(id).name, language)
             i == FirstSlot(r, Named)
         IN  IF i < r.count THEN r.plugins[i] ELSE 0
\* plugin_registry_get_for_file on a registry of several plugins.
get_for_file(r, filepath) ==
    IF filepath = NullStr THEN 0
    ELSE LET Supports(id) == Plugin(id).supports /\ supports_file(id, filepath)
             i == FirstSlot(r, Supports)
         IN  IF i < r.count THEN r.plugins[i] ELSE 0

RegistryCalled(op, plugin, arg, ret, init) ==
    /\ rcalls > 0
    /\ rcalls' = rcalls - 1
    /\ rlast' = [op |-> op, plugin |-> plugin, arg |-> arg, ret |-> ret,
                 init |-> init]
    /\ UNCHANGED nonRegistry
\* A call of plugin_registry_register.
Register(plugin) ==
    \E did \in {plugin_registry_register(g_registry, plugin)} :
        /\ g_registry' = did.r
        /\ inited' = IF did.init = "true" THEN inited \cup {plugin} ELSE inited
        /\ RegistryCalled("register", plugin, <<>>, IF did.ret THEN 1 ELSE 0,
                          did.init)
\* A call of plugin_registry_get.
Get(language) ==
    /\ RegistryCalled("get", 0, language,
                      plugin_registry_get(g_registry, language), "none")
    /\ UNCHANGED <<g_registry, inited>>
\* A call of plugin_registry_get_for_file.
GetForFile(filepath) ==
    /\ RegistryCalled("get_for_file", 0, filepath,
                      get_for_file(g_registry, filepath), "none")
    /\ UNCHANGED <<g_registry, inited>>

\* The registry after the first n other plugins were registered.
Filled(n) ==
    [plugins |-> [i \in 0..(MAX_PLUGINS - 1) |-> IF i < n THEN i + 6 ELSE 0],
     count |-> n, initialized |-> FALSE]
LanguageNames == {NamePy, NameCapPy, NameJs, NameGo, NullStr}
LookupFiles == {FileAM, FileMD, <<"m", "k">>, NullStr}
InitRegistry ==
    /\ AllIdleBut("registry")
    /\ \E n \in {0, Fillers} :
           /\ g_registry = Filled(n)
           /\ inited = {i + 6 : i \in 0..(n - 1)}
    /\ rlast = NoRegistryCall
    /\ rcalls = RegistryCalls
NextRegistry ==
    \/ \E plugin \in PluginArgs : Register(plugin)
    \/ \E language \in LanguageNames : Get(language)
    \/ \E filepath \in LookupFiles : GetForFile(filepath)
SpecRegistry == InitRegistry /\ [][NextRegistry]_vars

Registered == {g_registry.plugins[i] : i \in 0..(g_registry.count - 1)}
C24_LookupsFindRegistered ==
    [][(rcalls' = rcalls - 1 /\ rlast'.op \in {"get", "get_for_file"}) =>
          /\ g_registry' = g_registry
          /\ rlast'.op = "get_for_file" =>
                 LET Accepts(i) ==
                         /\ rlast'.arg # NullStr
                         /\ Plugin(g_registry.plugins[i]).supports
                         /\ path_get_extension(rlast'.arg)
                                \in Plugin(g_registry.plugins[i]).extensions
                     slots == 0..(g_registry.count - 1)
                 IN  IF \E i \in slots : Accepts(i)
                     THEN \E i \in slots :
                              /\ Accepts(i)
                              /\ \A j \in 0..(i - 1) : ~Accepts(j)
                              /\ rlast'.ret = g_registry.plugins[i]
                     ELSE rlast'.ret = 0
          /\ rlast'.op = "get" =>
                 \A id \in Registered :
                     Plugin(id).name = rlast'.arg => rlast'.ret = id]_vars
\* C24, the part on lookups by file alone, which holds.
C24_ByFileEarliest ==
    [][(rcalls' = rcalls - 1 /\ rlast'.op = "get_for_file") =>
          /\ g_registry' = g_registry
          /\ rlast'.ret # 0 =>
                 /\ rlast'.ret \in Registered
                 /\ supports_file(rlast'.ret, rlast'.arg)
          /\ rlast'.ret = 0 =>
                 \A id \in Registered :
                     ~(Plugin(id).supports /\ supports_file(id, rlast'.arg))]_vars

\* ---------------------------------------------------------------------------
\* The confidence of an Edge (src/src/core/entity.c, src/src/core/manifest.c).
\* ---------------------------------------------------------------------------

\* Calls on edges in one behaviour.
EdgeCalls == 3
\* The confidences passed in, in hundredths: below, inside and above [0, 1],
\* among them the 0.95 of main.c and the 0.8 of the python plugin.
ConfidenceArgs == {-150, -1, 0, 1, 80, 95, 100, 101, 250}
EdgeCalled(op, edge, confidence) ==
    /\ ecalls > 0
    /\ ecalls' = ecalls - 1
    /\ elast' = [op |-> op, edge |-> edge, confidence |-> confidence]
    /\ UNCHANGED nonEdge
\* A call of edge_create.
EdgeCreate ==
    /\ elist' = Append(elist, edge_create(Len(elist) + 1, "a", "b", "HTTP_CALL",
                                          "get", "/x", "m.py", 1))
    /\ EdgeCalled("create", Len(elist) + 1, 100)
\* A call of edge_set_confidence on an edge.
EdgeSetConfidence(i, confidence) ==
    /\ elist' = [elist EXCEPT ![i] = edge_set_confidence(@, confidence)]
    /\ EdgeCalled("set_confidence", i, confidence)
\* A call of edge_clone on an edge.
EdgeClone(i) ==
    /\ elist' = Append(elist, edge_clone(Len(elist) + 1, elist[i]))
    /\ EdgeCalled("clone", i, elist[i].confidence)
\* manifest_load_from_json on one object of the "edges" array: the confidence is
\* 1.0 unless the object has a "confidence" member, whose value as a double
\* is taken with no test of its type, and goes through edge_set_confidence.
LoadEdge(has_confidence, number) ==
    /\ LET confidence == IF has_confidence THEN number ELSE 100
           edge == edge_create(Len(elist) + 1, "a", "b", "HTTP_CALL", "get",
                               "/x", "m.py", 1)
       IN  /\ elist' = Append(elist, edge_set_confidence(edge, confidence))
           /\ EdgeCalled("load", Len(elist) + 1, confidence)

InitEdge ==
    /\ AllIdleBut("edge")
    /\ elist = <<>>
    /\ elast = NoEdgeCall
    /\ ecalls = EdgeCalls
NextEdge ==
    \/ EdgeCreate
    \/ \E i \in 1..Len(elist), confidence \in ConfidenceArgs :
           EdgeSetConfidence(i, confidence)
    \/ \E i \in 1..Len(elist) : EdgeClone(i)
    \/ \E has_confidence \in BOOLEAN, number \in ConfidenceArgs \cup {NaN} :
           LoadEdge(has_confidence, number)
SpecEdge == InitEdge /\ [][NextEdge]_vars

InUnit(c) == c # NaN /\ c >= 0 /\ c <= 100
Clamped(c) == IF c < 0 THEN 0 ELSE IF c > 100 THEN 100 ELSE c
\* C25: every edge's confidence is between 0.0 and 1.0 after any sequence of
\* edge_create, edge_set_confidence with a finite argument, edge_clone and the
\* load of a manifest.
C25_ConfidenceInUnit == \A i \in 1..Len(elist) : InUnit(elist[i].confidence)
\* C25, its parts on the three functions: edge_create gives 1.0,
\* edge_set_confidence(c) with a finite c stores c brought into [0.0, 1.0],
\* edge_clone gives the clone the confidence of its original.
C25_CreateSetClone ==
    [][ecalls' = ecalls - 1 =>
          LET i == elast'.edge
          IN  /\ elast'.op = "create" => elist'[i].confidence = 100
              /\ elast'.op = "set_confidence" =>
                     elist'[i].confidence = Clamped(elast'.confidence)
              /\ elast'.op = "clone" =>
                     elist'[Len(elist')].confidence = elist[i].confidence
              /\ \A j \in 1..Len(elist) : j # i => elist'[j] = elist[j]]_vars

\* ---------------------------------------------------------------------------
\* The extraction of endpoints and edges from query matches
\* (src/src/lang/python/plugin.c, src/src/core/extractor.c).
\* ---------------------------------------------------------------------------

\* char path_buffer[512], handler_buffer[256] of extract_routes; char
\* lib_buffer[128], method_buffer[128], url_buffer[512] of extract_calls.
SizeofPathBuffer == 512
SizeofHandlerBuffer == 256
SizeofLibBuffer == 128
SizeofMethodBuffer == 128
SizeofUrlBuffer == 512

\* The two quote characters.
DoubleQuote == "\""
SingleQuote == "'"
\* A text of n letters.
Letters(n) == [k \in 1..n |-> "x"]
\* The text of a string literal: its content between two delimiters.
Literal(open, content, close) == <<open>> \o content \o <<close>>

TextRoute == <<"r", "o", "u", "t", "e">>
TextGet == <<"g", "e", "t">>
TextPost == <<"p", "o", "s", "t">>
TextRequests == <<"r", "e", "q", "u", "e", "s", "t", "s">>
TextHttpx == <<"h", "t", "t", "p", "x">>
TextUrllib == <<"u", "r", "l", "l", "i", "b">>
TextRequestsCap == <<"R", "e", "q", "u", "e", "s", "t", "s">>
TextSlashR == <<"/", "r">>

\* toupper on the letters of the method names.
toupper(c) ==
    IF c = "g" THEN "G" ELSE IF c = "e" THEN "E" ELSE IF c = "t" THEN "T"
    ELSE IF c = "p" THEN "P" ELSE IF c = "o" THEN "O" ELSE IF c = "s" THEN "S"
    ELSE c

\* extractor_strip_quotes on a string that is not NULL.
extractor_strip_quotes(str) ==
    LET len == Len(str)
    IN  IF len < 2 THEN str
        ELSE IF str[1] \in {DoubleQuote, SingleQuote} /\ str[len] = str[1]
        THEN SubSeq(str, 2, len - 1)
        ELSE str

\* The captures of one match: name, text of the node, row of its start.
Capture(name, text, row) == [name |-> name, text |-> text, row |-> row]
\* extractor_find_capture, then extractor_get_node_text: the text of the first
\* capture of a name, NULL when the match has none or the node is empty.
find_capture_text(match, name) ==
    LET found == {k \in 1..Len(match) : match[k].name = name}
    IN  IF found = {} THEN NullStr
        ELSE LET k == CHOOSE m \in found : \A n \in found : m <= n
             IN  IF Len(match[k].text) = 0 THEN NullStr ELSE match[k].text
\* extractor_get_http_method.
extractor_get_http_method(match) ==
    LET fastapi == find_capture_text(match, "fastapi.method")
        flask == find_capture_text(match, "route.method")
    IN  IF fastapi # NullStr
        THEN [k \in 1..Len(fastapi) |-> toupper(fastapi[k])]
        ELSE IF flask # NullStr
        THEN LET clean == extractor_strip_quotes(flask)
             IN  [k \in 1..Len(clean) |-> toupper(clean[k])]
        ELSE <<"G", "E", "T">>

\* The loop over the captures of a match, for one capture name: the text of
\* the last capture of that name that fits the buffer (length < limit), NULL
\* when there is none.
copied_capture(match, name, limit) ==
    LET fits == {k \in 1..Len(match) :
                    match[k].name = name /\ Len(match[k].text) < limit}
    IN  IF fits = {} THEN NullStr
        ELSE match[CHOOSE m \in fits : \A n \in fits : n <= m].text
\* The stripping of quotes that extract_routes and extract_calls do in the
\* buffer: after a first character that is a quote the string starts at the
\* second character, and the last character is cut when length > 2.
strip_in_buffer(text) ==
    IF text = NullStr THEN NullStr
    ELSE IF Len(text) > 0 /\ text[1] \in {DoubleQuote, SingleQuote}
    THEN IF Len(text) > 2 THEN SubSeq(text, 2, Len(text) - 1)
         ELSE SubSeq(text, 2, Len(text))
    ELSE text

\* A decorated function of a source file: @<object>.<attribute>(<path>) or
\* @<object>.<attribute>(<path>, methods=[...]) at a row, over def <handler>.
\* The matches of routes_query for it: the keyword argument is no (string)
\* child of the argument list, so there is one match, with three captures.
routes_query(decorated) ==
    << Capture("route.decorator", decorated.attribute, decorated.row),
       Capture("route.path", decorated.path, decorated.row),
       Capture("route.handler", decorated.handler, decorated.row + 1) >>
\* A call <lib>.<method>(<url>) at a row, and the match of calls_query for it.
calls_query(call) ==
    << Capture("http.client.lib", call.lib, call.row),
       Capture("http.client.method", call.method, call.row),
       Capture("http.client.url", call.url, call.row) >>

\* extract_routes: the endpoints added for the matches, in order.
RECURSIVE extract_routes(_, _, _)
extract_routes(matches, service_name, service_path) ==
    IF matches = <<>> THEN <<>>
    ELSE LET match == Head(matches)
             route_path ==
                 strip_in_buffer(copied_capture(match, "route.path",
                                                SizeofPathBuffer - 1))
             handler_name ==
                 copied_capture(match, "route.handler", SizeofHandlerBuffer)
             rest == extract_routes(Tail(matches), service_name, service_path)
         IN  IF route_path # NullStr /\ handler_name # NullStr
                /\ service_name # NullStr
             THEN << endpoint_create(0, service_name, route_path, "GET",
                                     handler_name,
                                     path_basename(service_path),
                                     match[1].row + 1) >> \o rest
             ELSE rest
\* extract_calls: the edges added for the matches, in order.
RECURSIVE extract_calls(_, _, _)
extract_calls(matches, service_name, service_path) ==
    IF matches = <<>> THEN <<>>
    ELSE LET match == Head(matches)
             lib_name == copied_capture(match, "http.client.lib",
                                        SizeofLibBuffer)
             method_name == copied_capture(match, "http.client.method",
                                           SizeofMethodBuffer)
             url == strip_in_buffer(copied_capture(match, "http.client.url",
                                                   SizeofUrlBuffer - 1))
             rest == extract_calls(Tail(matches), service_name, service_path)
         IN  IF lib_name # NullStr /\ method_name # NullStr /\ url # NullStr
                /\ service_name # NullStr
                /\ (lib_name = TextRequests \/ lib_name = TextHttpx)
             THEN << edge_set_confidence(
                         edge_create(0, service_name, url, "HTTP_CALL",
                                     method_name, url,
                                     path_basename(service_path),
                                     match[1].row + 1), 80) >> \o rest
             ELSE rest

\* The service names passed in: a name, and NULL.
ServiceNames == {<<"s">>, NullStr}
\* The string literals of the sources: both quote characters, an empty
\* content, a literal that just fits path_buffer or url_buffer and one that
\* just does not, and a literal with a prefix.
PathLiterals ==
    {Literal(DoubleQuote, TextSlashR, DoubleQuote),
     Literal(SingleQuote, TextSlashR, SingleQuote),
     Literal(DoubleQuote, <<>>, DoubleQuote),
     Literal(SingleQuote, <<>>, SingleQuote),
     Literal(DoubleQuote, Letters(SizeofPathBuffer - 4), DoubleQuote),
     Literal(DoubleQuote, Letters(SizeofPathBuffer - 3), DoubleQuote)}
Prefixed == <<"f">> \o Literal(DoubleQuote, TextSlashR, DoubleQuote)
Decorateds ==
    [attribute : {TextRoute, TextPost, TextGet},
     path : PathLiterals,
     methods : {<<>>, <<"POST">>, <<"GET">>},
     handler : {<<"h">>, Letters(SizeofHandlerBuffer - 1),
                Letters(SizeofHandlerBuffer)},
     row : {0, 4}]
\* Source files with one decorated function, and some with two.
RouteFiles ==
    {<<d>> : d \in Decorateds}
    \cup {<<d, e>> : d, e \in [attribute : {TextRoute, TextPost},
                               path : {Literal(DoubleQuote, TextSlashR,
                                               DoubleQuote),
                                       Literal(DoubleQuote, <<>>,
                                               DoubleQuote)},
                               methods : {<<>>}, handler : {<<"h">>},
                               row : {0, 4}]}
Calls ==
    [lib : {TextRequests, TextHttpx, TextUrllib, TextRequestsCap,
            Letters(SizeofLibBuffer)},
     method : {TextGet, TextPost, Letters(SizeofMethodBuffer - 1),
               Letters(SizeofMethodBuffer)},
     url : PathLiterals \cup {Prefixed},
     row : {0, 4}]
CallFiles ==
    {<<c>> : c \in Calls}
    \cup {<<c, d>> : c, d \in [lib : {TextRequests, TextUrllib},
                               method : {TextGet},
                               url : {Literal(SingleQuote, TextSlashR,
                                              SingleQuote)},
                               row : {0, 4}]}
\* Matches with the captures extractor_get_http_method looks for.
MethodMatches ==
    {routes_query(d) : d \in {e \in Decorateds : Len(e.handler) = 1 /\ e.row = 0}}
    \cup {<<Capture("fastapi.method", TextPost, 0)>>,
          <<Capture("route.method", Literal(SingleQuote, TextPost, SingleQuote), 0)>>,
          <<Capture("route.method", Literal(SingleQuote, TextGet, SingleQuote), 0),
            Capture("fastapi.method", TextPost, 0)>>}

FunctionCalled(call) ==
    /\ NotCalled
    /\ xlast' = call
    /\ UNCHANGED nonFunction
\* extract_routes on the tree of a source file.
ExtractRoutes(file, service_name) ==
    FunctionCalled([op |-> "extract_routes", file |-> file,
                    service_name |-> service_name,
                    out |-> extract_routes(
                               [k \in 1..Len(file) |-> routes_query(file[k])],
                               service_name, FileAM)])
\* extract_calls on the tree of a source file.
ExtractCalls(file, service_name) ==
    FunctionCalled([op |-> "extract_calls", file |-> file,
                    service_name |-> service_name,
                    out |-> extract_calls(
                               [k \in 1..Len(file) |-> calls_query(file[k])],
                               service_name, FileAM)])
\* A call of extractor_strip_quotes.
StripQuotes(str) ==
    FunctionCalled([op |-> "strip_quotes", str |-> str,
                    out |-> extractor_strip_quotes(str)])
\* A call of extractor_get_http_method.
GetHttpMethod(match) ==
    FunctionCalled([op |-> "get_http_method", match |-> match,
                    out |-> extractor_get_http_method(match)])

InitExtract ==
    /\ AllIdleBut("function")
    /\ xlast = NoFunctionCall
NextExtract ==
    \/ /\ NotCalled
       /\ \E file \in RouteFiles, service_name \in ServiceNames :
              ExtractRoutes(file, service_name)
    \/ /\ NotCalled
       /\ \E file \in CallFiles, service_name \in ServiceNames :
              ExtractCalls(file, service_name)
    \/ /\ NotCalled
       /\ \E str \in PathLiterals \cup {Prefixed, <<DoubleQuote>>, <<>>} :
              StripQuotes(str)
    \/ /\ NotCalled
       /\ \E match \in MethodMatches : GetHttpMethod(match)
SpecExtract == InitExtract /\ [][NextExtract]_vars

\* A literal between a matching pair of quotes, and what is between them.
IsQuoted(text) ==
    /\ Len(text) >= 2
    /\ text[1] \in {DoubleQuote, SingleQuote}
    /\ text[Len(text)] = text[1]
Content(text) == SubSeq(text, 2, Len(text) - 1)
\* C26: for a string literal between a matching pair of single or double
\* quotes, of any content length including zero, the path of the endpoint and
\* the URL of the edge made from it are the literal's content, without the
\* two quotes.
C26_QuotesStripped ==
    /\ xlast.op = "extract_routes" /\ Len(xlast.file) = 1
       /\ IsQuoted(xlast.file[1].path) =>
           \A k \in 1..Len(xlast.out) :
               xlast.out[k].path = Content(xlast.file[1].path)
    /\ xlast.op = "extract_calls" /\ Len(xlast.file) = 1
       /\ IsQuoted(xlast.file[1].url) =>
           \A k \in 1..Len(xlast.out) :
               /\ xlast.out[k].endpoint = Content(xlast.file[1].url)
               /\ xlast.out[k].to_service = Content(xlast.file[1].url)
\* C26, for literals with a content of one character or more: the content is
\* what is stored.
C26_StrippedWhenNotEmpty ==
    /\ xlast.op = "extract_routes" /\ Len(xlast.file) = 1
       /\ IsQuoted(xlast.file[1].path) /\ Len(xlast.file[1].path) > 2 =>
           \A k \in 1..Len(xlast.out) :
               xlast.out[k].path = Content(xlast.file[1].path)
    /\ xlast.op = "extract_calls" /\ Len(xlast.file) = 1
       /\ IsQuoted(xlast.file[1].url) /\ Len(xlast.file[1].url) > 2 =>
           \A k \in 1..Len(xlast.out) :
               xlast.out[k].endpoint = Content(xlast.file[1].url)
    /\ xlast.op = "strip_quotes" /\ IsQuoted(xlast.str) =>
           xlast.out = Content(xlast.str)

\* The HTTP method a decorator specifies: the first of its methods=[...], else
\* the method its name is, else none.
DecoratorMethod(decorated) ==
    IF decorated.methods # <<>> THEN decorated.methods[1]
    ELSE IF decorated.attribute = TextPost THEN "POST"
    ELSE IF decorated.attribute = TextGet THEN "GET"
    ELSE "none"
\* C27: each route match gives one endpoint, with the method the decorator
\* specifies and GET when it specifies none, the name of the decorated function
\* as handler, and the 1-based line of the match.
C27_RouteEndpoint ==
    xlast.op = "extract_routes" /\ xlast.service_name # NullStr =>
        /\ Len(xlast.out) = Len(xlast.file)
        /\ \A k \in 1..Len(xlast.out) :
               /\ xlast.out[k].method =
                      (IF DecoratorMethod(xlast.file[k]) = "none" THEN "GET"
                       ELSE DecoratorMethod(xlast.file[k]))
               /\ xlast.out[k].handler = xlast.file[k].handler
               /\ xlast.out[k].line = xlast.file[k].row + 1
\* The captures of a decorated function fit the buffers of extract_routes.
RouteFits(decorated) ==
    /\ Len(decorated.path) < SizeofPathBuffer - 1
    /\ Len(decorated.handler) < SizeofHandlerBuffer
\* C27, as far as it holds: a match whose captures fit the buffers gives one
\* endpoint with the handler and the line; its method is GET whatever the
\* decorator says.
C27_HandlerAndLine ==
    xlast.op = "extract_routes" /\ xlast.service_name # NullStr
    /\ (\A k \in 1..Len(xlast.file) : RouteFits(xlast.file[k])) =>
        /\ Len(xlast.out) = Len(xlast.file)
        /\ \A k \in 1..Len(xlast.out) :
               /\ xlast.out[k].method = "GET"
               /\ xlast.out[k].handler = xlast.file[k].handler
               /\ xlast.out[k].line = xlast.file[k].row + 1

\* The edges extract_calls makes all have the fields the claim names.
EdgesAsClaimed ==
    \A k \in 1..Len(xlast.out) :
        /\ xlast.out[k].type = "HTTP_CALL"
        /\ xlast.out[k].from_service = xlast.service_name
        /\ xlast.out[k].confidence = 80
\* C28: extract_calls makes an edge for a call match exactly when the receiver
\* is requests or httpx and the method name, the URL literal and the service
\* name are present; the edge is an HTTP call from the file's service, with the
\* called attribute as method and confidence 0.8.
C28_EdgeIffAllowedLibrary ==
    xlast.op = "extract_calls" /\ Len(xlast.file) = 1 =>
        /\ xlast.out # <<>> <=>
               /\ xlast.file[1].lib \in {TextRequests, TextHttpx}
               /\ xlast.service_name # NullStr
        /\ Len(xlast.out) <= 1
        /\ EdgesAsClaimed
        /\ \A k \in 1..Len(xlast.out) :
               xlast.out[k].method = xlast.file[1].method
\* The captures of a call fit the buffers of extract_calls.
CallFits(call) ==
    /\ Len(call.lib) < SizeofLibBuffer
    /\ Len(call.method) < SizeofMethodBuffer
    /\ Len(call.url) < SizeofUrlBuffer - 1
\* C28, as far as it holds: the same with "present" read as "copied into its
\* buffer", which needs a method name under 128 and a literal under 511 bytes.
C28_EdgeIffAllowedAndFits ==
    xlast.op = "extract_calls" =>
        LET made == {k \in 1..Len(xlast.file) :
                        /\ xlast.file[k].lib \in {TextRequests, TextHttpx}
                        /\ xlast.service_name # NullStr
                        /\ CallFits(xlast.file[k])}
        IN  /\ Len(xlast.out) = Cardinality(made)
            /\ EdgesAsClaimed
            /\ Len(xlast.file) = 1 =>
                   \A k \in 1..Len(xlast.out) :
                       xlast.out[k].method = xlast.file[1].method

\* ---------------------------------------------------------------------------
\* The fingerprint and the detection of changes (src/src/core/cache.c).
\* ---------------------------------------------------------------------------

\* A file has the mtime and the size its entry holds, and a content whose
\* CRC-32 is not the one the entry holds.
SameStatOtherContent(p) ==
    LET n == lookup(cache, p)
    IN  /\ fs[p].exists
        /\ n # NULL
        /\ cache.node[n].mtime = fs[p].mtime
        /\ cache.node[n].size = fs[p].size
        /\ cache.node[n].hash # crc32(fs[p].data)
\* C29: a cached file whose content, and so its CRC-32, is no longer what the
\* last cache_update_file stored, with mtime and size as stored, is reported
\* as changed by cache_is_file_changed.
C29_ContentChangeDetected ==
    [][calls' = calls - 1 /\ last'.op = "is_file_changed"
       /\ SameStatOtherContent(last'.path) => last'.ret = TRUE]_vars
\* C29, as far as it holds: cache_is_file_changed reports a cached file as
\* changed exactly when its mtime or its size is not the one stored.
C29_StatChangeDetected ==
    [][calls' = calls - 1 /\ last'.op = "is_file_changed"
       /\ fs[last'.path].exists /\ lookup(cache, last'.path) # NULL =>
           LET n == lookup(cache, last'.path)
           IN  last'.ret = (cache.node[n].mtime # fs[last'.path].mtime
                            \/ cache.node[n].size # fs[last'.path].size)]_vars

\* ---------------------------------------------------------------------------
\* The matching of names against patterns (src/src/util/path.c) and the
\* built-in ignore list (src/src/core/walker.c).
\* ---------------------------------------------------------------------------

\* The longest name and the longest pattern matched.
GlobLen == 3
RECURSIVE SeqsUpTo(_, _)
SeqsUpTo(S, n) ==
    IF n = 0 THEN {<<>>}
    ELSE LET shorter == SeqsUpTo(S, n - 1)
         IN  shorter \cup {<<c>> \o s : c \in S, s \in {t \in shorter : Len(t) = n - 1}}
GlobNames == SeqsUpTo({"a", "b"}, GlobLen)
GlobPatterns == SeqsUpTo({"a", "b", "*", "?"}, GlobLen)
\* File names with and without the extensions of compiled artifacts.
ArtifactNames ==
    {<<"a", ".", "p", "y", "c">>, <<"a", ".", "p", "y", "o">>,
     <<"a", ".", "p", "y", "d">>, <<"a", ".", "s", "o">>,
     <<"a", ".", "d", "y", "l", "i", "b">>, <<".", "s", "o">>,
     <<".", "d", "y", "l", "i", "b">>, <<".", "p", "y", "c">>,
     <<"a", ".", "p", "y">>, <<"p", "y", "c">>, <<"v", "e", "n", "v">>,
     <<"a", ".", "p", "y", "c", "x">>}

\* A call of path_matches_pattern.
MatchesPattern(filename, pattern) ==
    FunctionCalled([op |-> "path_matches_pattern", filename |-> filename,
                    pattern |-> pattern,
                    out |-> path_matches_pattern(filename, pattern)])
\* A call of should_ignore_builtin.
ShouldIgnoreBuiltin(name) ==
    FunctionCalled([op |-> "should_ignore_builtin", name |-> name,
                    out |-> should_ignore_builtin(name)])
InitMatch ==
    /\ AllIdleBut("function")
    /\ xlast = NoFunctionCall
NextMatch ==
    \/ /\ NotCalled
       /\ \E filename \in GlobNames, pattern \in GlobPatterns :
              MatchesPattern(filename, pattern)
    \/ /\ NotCalled
       /\ \E name \in ArtifactNames \cup GlobNames : ShouldIgnoreBuiltin(name)
SpecMatch == InitMatch /\ [][NextMatch]_vars

\* The reference: "*" stands for a run of zero or more characters, "?" for
\* one character, any other character for itself, over the whole name.
RECURSIVE GlobMatches(_, _)
GlobMatches(name, pattern) ==
    IF pattern = <<>> THEN name = <<>>
    ELSE IF pattern[1] = "*"
    THEN \E k \in 0..Len(name) :
             GlobMatches(SubSeq(name, k + 1, Len(name)), Tail(pattern))
    ELSE /\ name # <<>>
         /\ pattern[1] = "?" \/ pattern[1] = name[1]
         /\ GlobMatches(Tail(name), Tail(pattern))
EndsWith(name, suffix) ==
    /\ Len(name) >= Len(suffix)
    /\ SubSeq(name, Len(name) - Len(suffix) + 1, Len(name)) = suffix
ArtifactSuffixes ==
    {<<".", "p", "y", "c">>, <<".", "p", "y", "o">>, <<".", "p", "y", "d">>,
     <<".", "s", "o">>, <<".", "d", "y", "l", "i", "b">>}
\* C30: path_matches_pattern agrees with the reference on every name and
\* pattern, and so every file with one of the extensions pyc, pyo, pyd, so and
\* dylib is ignored by the built-in list.
C30_GlobAgreesWithReference ==
    /\ xlast.op = "path_matches_pattern" =>
           xlast.out = GlobMatches(xlast.filename, xlast.pattern)
    /\ xlast.op = "should_ignore_builtin"
       /\ (\E suffix \in ArtifactSuffixes : EndsWith(xlast.name, suffix)) =>
           xlast.out = TRUE
\* A pattern with a "*" right after a "*".
StarAfterStar(pattern) ==
    \E k \in 1..(Len(pattern) - 1) : pattern[k] = "*" /\ pattern[k + 1] = "*"
\* C30, as far as it holds: the two agree on every pattern without two "*" in
\* a row, and files with the extensions pyc, pyo and pyd are ignored.
C30_AgreesWithoutStarRun ==
    /\ xlast.op = "path_matches_pattern" /\ ~StarAfterStar(xlast.pattern) =>
           xlast.out = GlobMatches(xlast.filename, xlast.pattern)
    /\ xlast.op = "should_ignore_builtin"
       /\ (\E suffix \in {<<".", "p", "y", "c">>, <<".", "p", "y", "o">>,
                          <<".", "p", "y", "d">>} :
               EndsWith(xlast.name, suffix)) =>
           xlast.out = TRUE
\* C30: a file named a.so is not ignored.
C30_SharedObjectIgnored ==
    xlast.op = "should_ignore_builtin" /\ xlast.name = <<"a", ".", "s", "o">> =>
        xlast.out = TRUE

\* ---------------------------------------------------------------------------
\* The manifest written as JSON and loaded again (src/src/core/manifest.c).
\* ---------------------------------------------------------------------------

\* Operations on the aggregate in one behaviour that ends in a reload.
ReloadOps == 3
\* An object of json-c is the members added to it, by key; a member that was
\* not added is not in its domain.
NoMembers == [k \in {} |-> 0]
Member(present, key, value) == IF present THEN key :> value ELSE NoMembers

TextOfMethod ==
    [GET |-> <<"G", "E", "T">>, POST |-> <<"P", "O", "S", "T">>,
     PUT |-> <<"P", "U", "T">>, DELETE |-> <<"D", "E", "L", "E", "T", "E">>,
     PATCH |-> <<"P", "A", "T", "C", "H">>, HEAD |-> <<"H", "E", "A", "D">>,
     OPTIONS |-> <<"O", "P", "T", "I", "O", "N", "S">>]
\* http_method_to_string.
http_method_to_string(method) ==
    IF method \in DOMAIN TextOfMethod THEN TextOfMethod[method]
    ELSE <<"U", "N", "K", "N", "O", "W", "N">>
\* http_method_from_string, on a string in upper case.
http_method_from_string(str) ==
    IF str = NullStr THEN "UNKNOWN"
    ELSE IF \E m \in DOMAIN TextOfMethod : TextOfMethod[m] = str
    THEN CHOOSE m \in DOMAIN TextOfMethod : TextOfMethod[m] = str
    ELSE "UNKNOWN"
TextOfType ==
    [HTTP_CALL |-> <<"H", "T", "T", "P", "_", "C", "A", "L", "L">>,
     IMPORT |-> <<"I", "M", "P", "O", "R", "T">>,
     RPC |-> <<"R", "P", "C">>,
     DATABASE |-> <<"D", "A", "T", "A", "B", "A", "S", "E">>,
     MESSAGE_QUEUE |-> <<"M", "E", "S", "S", "A", "G", "E", "_", "Q", "U",
                         "E", "U", "E">>]
\* edge_type_to_string.
edge_type_to_string(type) ==
    IF type \in DOMAIN TextOfType THEN TextOfType[type]
    ELSE <<"U", "N", "K", "N", "O", "W", "N">>
\* edge_type_from_string, on a string in upper case: the names above and the
\* short forms HTTP, DB and MQ.
edge_type_from_string(str) ==
    IF str = NullStr THEN "UNKNOWN"
    ELSE IF str = <<"H", "T", "T", "P">> THEN "HTTP_CALL"
    ELSE IF str = <<"D", "B">> THEN "DATABASE"
    ELSE IF str = <<"M", "Q">> THEN "MESSAGE_QUEUE"
    ELSE IF \E t \in DOMAIN TextOfType : TextOfType[t] = str
    THEN CHOOSE t \in DOMAIN TextOfType : TextOfType[t] = str
    ELSE "UNKNOWN"

service_to_json(service) ==
    [name |-> service.name, language |-> service.language,
     path |-> service.path, file_count |-> Len(service.files),
     files |-> service.files]
endpoint_to_json(endpoint) ==
    [service |-> endpoint.service_name, path |-> endpoint.path,
     method |-> http_method_to_string(endpoint.method)]
    @@ Member(endpoint.handler # NullStr, "handler", endpoint.handler)
    @@ Member(endpoint.file # NullStr, "file", endpoint.file)
    @@ Member(endpoint.file # NullStr, "line", endpoint.line)
edge_to_json(edge) ==
    [from |-> edge.from_service, to |-> edge.to_service,
     type |-> edge_type_to_string(edge.type), confidence |-> edge.confidence]
    @@ Member(edge.method # NullStr, "method", edge.method)
    @@ Member(edge.endpoint # NullStr, "endpoint", edge.endpoint)
    @@ Member(edge.file # NullStr, "file", edge.file)
    @@ Member(edge.file # NullStr, "line", edge.line)
\* manifest_to_json_string, then manifest_write_json: the three arrays of the
\* root object.
manifest_to_json(m) ==
    [services |-> [i \in 1..Len(m.services) |-> service_to_json(m.services[i])],
     endpoints |->
         [i \in 1..Len(m.endpoints) |-> endpoint_to_json(m.endpoints[i])],
     edges |-> [i \in 1..Len(m.edges) |-> edge_to_json(m.edges[i])]]

\* json_object_object_get_ex and json_object_get_string or _get_int of an
\* optional member: otherwise when the member is absent.
get_member(obj, key, otherwise) ==
    IF key \in DOMAIN obj THEN obj[key] ELSE otherwise
RECURSIVE add_files(_, _)
add_files(service, files) ==
    IF files = <<>> THEN service
    ELSE add_files(service_add_file(service, Head(files)), Tail(files))
\* The three loops of manifest_load_from_json over objs, from object i on;
\* the entity made from object i is allocated at id + i.
RECURSIVE load_services(_, _, _, _)
load_services(list, objs, i, id) ==
    IF i > Len(objs) THEN list
    ELSE IF ~({"name", "language", "path"} \subseteq DOMAIN objs[i])
    THEN load_services(list, objs, i + 1, id)
    ELSE LET service == service_create(id + i, objs[i].name,
                                       objs[i].language, objs[i].path)
             files == get_member(objs[i], "files", <<>>)
         IN  load_services(service_list_add(list,
                                            add_files(service, files)).list,
                           objs, i + 1, id)
RECURSIVE load_endpoints(_, _, _, _)
load_endpoints(list, objs, i, id) ==
    IF i > Len(objs) THEN list
    ELSE IF ~({"service", "path", "method"} \subseteq DOMAIN objs[i])
    THEN load_endpoints(list, objs, i + 1, id)
    ELSE LET endpoint ==
                 endpoint_create(id + i, objs[i].service, objs[i].path,
                                 http_method_from_string(objs[i].method),
                                 get_member(objs[i], "handler", NullStr),
                                 get_member(objs[i], "file", NullStr),
                                 get_member(objs[i], "line", 0))
         IN  load_endpoints(endpoint_list_add(list, endpoint), objs, i + 1, id)
RECURSIVE load_edges(_, _, _, _)
load_edges(list, objs, i, id) ==
    IF i > Len(objs) THEN list
    ELSE IF ~({"from", "to", "type"} \subseteq DOMAIN objs[i])
    THEN load_edges(list, objs, i + 1, id)
    ELSE LET edge ==
                 edge_create(id + i, objs[i].from, objs[i].to,
                             edge_type_from_string(objs[i].type),
                             get_member(objs[i], "method", NullStr),
                             get_member(objs[i], "endpoint", NullStr),
                             get_member(objs[i], "file", NullStr),
                             get_member(objs[i], "line", 0))
             confidence == get_member(objs[i], "confidence", 100)
         IN  load_edges(edge_list_add(list,
                                      edge_set_confidence(edge, confidence)),
                        objs, i + 1, id)
\* manifest_load_from_json of a file that holds root.
manifest_load_from_json(root, id) ==
    [services |-> load_services(<<>>, root.services, 1, id - 1),
     endpoints |-> load_endpoints(<<>>, root.endpoints, 1,
                                  id - 1 + Len(root.services)),
     edges |-> load_edges(<<>>, root.edges, 1,
                          id - 1 + Len(root.services) + Len(root.endpoints))]

TextFile == <<"m", ".", "p", "y">>
\* Endpoints and edges made by a caller, with and without the optional
\* handler, method, endpoint and file.
CallerEndpoints ==
    {[method |-> "POST", handler |-> <<"h">>, file |-> TextFile, line |-> 7],
     [method |-> "UNKNOWN", handler |-> NullStr, file |-> TextFile, line |-> 0],
     [method |-> "GET", handler |-> <<"h">>, file |-> NullStr, line |-> 0],
     [method |-> "GET", handler |-> NullStr, file |-> NullStr, line |-> 7]}
CallerEdges ==
    {[type |-> "DATABASE", method |-> NullStr, endpoint |-> NullStr,
      file |-> TextFile, line |-> 15],
     [type |-> "UNKNOWN", method |-> <<"g", "e", "t">>, endpoint |-> Url,
      file |-> NullStr, line |-> 0],
     [type |-> "HTTP_CALL", method |-> NullStr, endpoint |-> Url,
      file |-> NullStr, line |-> 15]}
\* manifest_add_endpoint of an endpoint made by endpoint_create.
AddEndpoint(given) ==
    /\ mcalls > 0
    /\ manifest' = [manifest EXCEPT !.endpoints =
           endpoint_list_add(@, endpoint_create(nextId, <<"a">>, RoutePath,
                                                given.method, given.handler,
                                                given.file, given.line))]
    /\ nextId' = nextId + 1
    /\ mlast' = MOp("add_endpoint", <<>>, <<>>, TRUE, manifest, {})
    /\ mcalls' = mcalls - 1
    /\ UNCHANGED <<freed, nonManifest>>
\* manifest_add_edge of an edge made by edge_create.
AddEdge(given) ==
    /\ mcalls > 0
    /\ manifest' = [manifest EXCEPT !.edges =
           edge_list_add(@, edge_create(nextId, <<"a">>, Url, given.type,
                                        given.method, given.endpoint,
                                        given.file, given.line))]
    /\ nextId' = nextId + 1
    /\ mlast' = MOp("add_edge", <<>>, <<>>, TRUE, manifest, {})
    /\ mcalls' = mcalls - 1
    /\ UNCHANGED <<freed, nonManifest>>
\* manifest_write_json, then manifest_load_from_json of the file written.
WriteReload ==
    /\ mcalls > 0
    /\ mlast.op # "write_reload"
    /\ manifest' = manifest_load_from_json(manifest_to_json(manifest), nextId)
    /\ nextId' = nextId + Len(manifest.services) + Len(manifest.endpoints)
                     + Len(manifest.edges)
    /\ mlast' = MOp("write_reload", <<>>, <<>>, TRUE, manifest, {})
    /\ mcalls' = mcalls - 1
    /\ UNCHANGED <<freed, nonManifest>>

InitReload ==
    /\ AllIdleBut("manifest")
    /\ ManifestStart(ReloadOps)
NextReload ==
    \/ \E f \in SourceFiles, k \in {"ok"} : Merge(f, k)
    \/ \E f \in SourceFiles : RemoveFile(f)
    \/ \E given \in CallerEndpoints : AddEndpoint(given)
    \/ \E given \in CallerEdges : AddEdge(given)
    \/ WriteReload
SpecReload == InitReload /\ [][NextReload]_vars

\* An entity without the identity of its allocation, and an edge without its
\* confidence too.
Without(entity, keys) == [k \in DOMAIN entity \ keys |-> entity[k]]
SameEntities(a, b, keys) ==
    /\ Len(a) = Len(b)
    /\ \A i \in 1..Len(a) : Without(a[i], keys) = Without(b[i], keys)
\* C31: a manifest written and loaded again has the same services, endpoints
\* and edges in the same order, with every field the claim names, entities
\* without a file included.
C31_ReloadGivesSameEntities ==
    mlast.op = "write_reload" =>
        /\ SameEntities(mlast.before.services, manifest.services, {"id"})
        /\ SameEntities(mlast.before.endpoints, manifest.endpoints, {"id"})
        /\ SameEntities(mlast.before.edges, manifest.edges,
                        {"id", "confidence"})
\* C31, as far as it holds: the same but for the line of an entity without a
\* file, which is 0 after the load.
C31_SameButLineWithoutFile ==
    mlast.op = "write_reload" =>
        LET Expected(entity) ==
                IF entity.file = NullStr THEN [entity EXCEPT !.line = 0]
                ELSE entity
            Sameness(a, b, keys) ==
                /\ Len(a) = Len(b)
                /\ \A i \in 1..Len(a) :
                       Without(Expected(a[i]), keys) = Without(b[i], keys)
        IN  /\ SameEntities(mlast.before.services, manifest.services, {"id"})
            /\ Sameness(mlast.before.endpoints, manifest.endpoints, {"id"})
            /\ Sameness(mlast.before.edges, manifest.edges, {"id"})

\* ---------------------------------------------------------------------------
\* What cache_is_file_changed leaves alone (src/src/core/cache.c).
\* ---------------------------------------------------------------------------

\* The entries of a cache with what cache_update_file stored in them.
StoredEntries(c) ==
    {[filepath |-> c.node[n].filepath, mtime |-> c.node[n].mtime,
      size |-> c.node[n].size, hash |-> c.node[n].hash] : n \in c.alloc}
\* What a call of cache_is_file_changed for p returns with cache c and the
\* files as given.
ReportedChanged(c, files, p) ==
    LET n == lookup(c, p)
    IN  \/ ~files[p].exists
        \/ n = NULL
        \/ c.node[n].mtime # files[p].mtime
        \/ c.node[n].size # files[p].size
\* C32: cache_is_file_changed adds no entry, removes none and leaves the
\* mtime, the size and the fingerprint of every entry as they are; so a file
\* it has reported as changed is reported as changed again by the next call
\* for it, as long as no cache_update_file has stored the file anew.
C32_CheckKeepsEntries ==
    [][calls' = calls - 1 /\ last'.op = "is_file_changed" =>
           /\ StoredEntries(cache') = StoredEntries(cache)
           /\ cache'.entry_count = cache.entry_count
           /\ last'.ret => ReportedChanged(cache', fs', last'.path)]_vars
\* C32: a second cache_is_file_changed in a row has reported as changed a
\* file that has an entry and was rewritten after its update.
C32_Witness ==
    /\ last.op = "is_file_changed"
    /\ last.ret
    /\ calls = 0
    /\ cache.misses = 2
    /\ cache.entry_count = 1
    /\ lookup(cache, last.path) # NULL
    /\ fs[last.path].exists
    /\ cache.node[lookup(cache, last.path)].mtime # fs[last.path].mtime

\* ---------------------------------------------------------------------------
\* What manifest_remove_file leaves of the other files
\* (src/src/core/manifest.c).
\* ---------------------------------------------------------------------------

\* The items that parsing a file gave: Found gives every file lines of its
\* own, so the line of an item tells the file it was extracted from.
ExtractedFrom(items, lines) ==
    SelectSeq(items, LAMBDA item : item.line \in Range(lines))
\* The places of path q in a file list.
ListedAt(files, q) == {i \in 1..Len(files) : files[i] = q}
\* manifest_remove_file(m, p) has kept what file q gave: its endpoints, its
\* edges, and as many copies of q in every service's file list as before.
KeptOf(before, after, q) ==
    /\ ExtractedFrom(after.endpoints, Found[q].routes)
         = ExtractedFrom(before.endpoints, Found[q].routes)
    /\ ExtractedFrom(after.edges, Found[q].calls)
         = ExtractedFrom(before.edges, Found[q].calls)
    /\ Len(after.services) = Len(before.services)
    /\ \A i \in 1..Len(before.services) :
          Cardinality(ListedAt(after.services[i].files, q))
            = Cardinality(ListedAt(before.services[i].files, q))
\* C33: manifest_remove_file(m, p) removes nothing that was extracted from
\* another file q: the endpoints and edges that parsing q gave and q's places
\* in the file lists stay, also when q has the base name of p in another
\* directory.
C33_OtherFilesKept ==
    [][DidM("remove_file")
       => \A q \in SourceFiles \ {mlast'.filepath} :
             KeptOf(manifest, manifest', q)]_vars
\* C33, as far as it holds: manifest_remove_file(m, p) removes nothing that
\* was extracted from a file q whose base name is not that of p.
C33_OtherBaseNamesKept ==
    [][DidM("remove_file")
       => \A q \in SourceFiles :
             path_basename(q) # path_basename(mlast'.filepath)
                => KeptOf(manifest, manifest', q)]_vars

\* ---------------------------------------------------------------------------
\* The recency order across a save and a load (src/src/core/cache.c).
\* ---------------------------------------------------------------------------

\* C34: after cache_manager_save and cache_manager_load into a new cache
\* whose limits the saved entries respect, the LRU list holds the entries in
\* the order it had before the save, head first.
C34_RecencySurvivesReload ==
    [][(/\ Did("load")
        /\ cache.alloc = {}
        /\ saved.valid
        /\ Fits(saved.lru, cache.max_entries, cache.max_bytes))
       => LruEntries(cache') = saved.lru]_vars

\* ---------------------------------------------------------------------------
\* One entry per path (src/src/core/cache.c).
\* ---------------------------------------------------------------------------

\* No two nodes of the cache hold the same path.
OnePerPath(c) ==
    \A n, m \in c.alloc : c.node[n].filepath = c.node[m].filepath => n = m
\* No two records of the snapshot hold the same path.
OnePerPathOnDisk(file) ==
    LET paths == PathsOf(SnapshotEntries(file))
    IN \A i, j \in 1..Len(paths) : paths[i] = paths[j] => i = j
\* C35: after any sequence of cache_update_file, cache_is_file_changed,
\* cache_set_limits, cache_clear and cache_manager_load calls, a load into a
\* cache that has entries and two loads of one snapshot included, no two
\* entries have the same path.
C35_OneEntryPerPath == OnePerPath(cache)
\* C35, as far as it holds: every call keeps one entry per path but a
\* cache_manager_load into a cache that has entries, or of a snapshot that
\* holds a path twice.
C35_OnePerPathButLoadOnEntries ==
    [][(/\ OnePerPath(cache)
        /\ Did("load") => (/\ cache.alloc = {}
                           /\ HeaderValid(disk) => OnePerPathOnDisk(disk)))
       => OnePerPath(cache')]_vars

\* ---------------------------------------------------------------------------
\* python_parse_file and the parser it takes from the pool
\* (src/src/lang/python/plugin.c, src/src/core/parser_pool.c).
\* ---------------------------------------------------------------------------

\* Calls of python_parse_file and on the pool in one behaviour.
ParseCalls == 10
\* The python plugin among the LanguagePlugin structs; python_state.initialized
\* is its membership in inited.
PythonPlugin == 1
\* The parsers handed out: the slots below count that are in use.
InUse(p) == {p.parsers[i] : i \in {j \in Slots(p) : p.in_use[j]}}
\* python_init as far as the pool goes: the pool afterwards, the value
\* returned and the parsers made.
python_init(p, initialized, ok, next) ==
    IF initialized THEN [p |-> p, ok |-> TRUE, made |-> 0]
    ELSE parser_pool_init(p, ok, next)
\* python_parse_file as it would be if the parser were not released when
\* ts_parser_parse_string gives no tree.
python_parse_file_keeps_parser(p, initialized, readable, parses, ok, next) ==
    LET init == python_init(p, initialized, ok, next)
        got == parser_pool_acquire(init.p, "python", ok, next + init.made)
    IN  IF ~init.ok
        THEN [p |-> init.p, initialized |-> FALSE, stage |-> "init",
              kind |-> "null", parser |-> 0, made |-> init.made]
        ELSE IF ~readable
        THEN [p |-> init.p, initialized |-> TRUE, stage |-> "read",
              kind |-> "failed", parser |-> 0, made |-> init.made]
        ELSE IF got.ret = 0
        THEN [p |-> got.p, initialized |-> TRUE, stage |-> "acquire",
              kind |-> "failed", parser |-> 0, made |-> init.made + got.made]
        ELSE IF ~parses
        THEN [p |-> got.p, initialized |-> TRUE, stage |-> "tree",
              kind |-> "failed", parser |-> got.ret,
              made |-> init.made + got.made]
        ELSE [p |-> parser_pool_release(got.p, got.ret),
              initialized |-> TRUE, stage |-> "done", kind |-> "ok",
              parser |-> got.ret, made |-> init.made + got.made]
\* python_parse_file on the pool: the pool afterwards, whether the plugin is
\* initialized, the statement it returned from, how the parse ended, the
\* parser it acquired (0: none) and the parsers made on the way.
python_parse_file_on_pool(p, initialized, readable, parses, ok, next) ==
    LET init == python_init(p, initialized, ok, next)
        got == parser_pool_acquire(init.p, "python", ok, next + init.made)
    IN  IF ~init.ok
        THEN [p |-> init.p, initialized |-> FALSE, stage |-> "init",
              kind |-> "null", parser |-> 0, made |-> init.made]
        ELSE IF ~readable
        THEN [p |-> init.p, initialized |-> TRUE, stage |-> "read",
              kind |-> "failed", parser |-> 0, made |-> init.made]
        ELSE IF got.ret = 0
        THEN [p |-> got.p, initialized |-> TRUE, stage |-> "acquire",
              kind |-> "failed", parser |-> 0, made |-> init.made + got.made]
        ELSE IF ~parses
        THEN [p |-> parser_pool_release(got.p, got.ret),
              initialized |-> TRUE, stage |-> "tree", kind |-> "failed",
              parser |-> got.ret, made |-> init.made + got.made]
        ELSE [p |-> parser_pool_release(got.p, got.ret),
              initialized |-> TRUE, stage |-> "done", kind |-> "ok",
              parser |-> got.ret, made |-> init.made + got.made]

\* A call of python_parse_file(filepath, NULL): read_file_contents gives the
\* source or NULL, ts_parser_parse_string a tree or NULL.
ParseFile(filepath, readable, parses) ==
    /\ pcalls > 0
    /\ LET r == python_parse_file_on_pool(pool_state, PythonPlugin \in inited,
                                          readable, parses, abi_ok, nextParser)
           result == python_parse_file(filepath,
                         python_infer_service_name(filepath),
                         ParseOutcome(filepath, r.kind), nextId)
       IN /\ pool_state' = r.p
          /\ inited' = IF r.initialized THEN inited \cup {PythonPlugin}
                       ELSE inited
          /\ nextParser' = nextParser + r.made
          /\ plast' = [op |-> "parse_file", language |-> "python",
                       parser |-> r.parser, ret |-> 0,
                       ok |-> result # <<>> /\ result[1].success,
                       made |-> r.made, stage |-> r.stage, result |-> result]
    /\ pcalls' = pcalls - 1
    /\ UNCHANGED <<abi_ok, pheld, threads, g_registry, rlast, rcalls,
                   cacheVars, manifestVars, walkerVars, edgeVars,
                   functionVars>>

\* Calls of python_parse_file among calls of other users of the pool.
InitParse ==
    /\ CacheIdle
    /\ ManifestStart(0)
    /\ WalkerIdle
    /\ RegistryIdle
    /\ EdgeIdle
    /\ FunctionIdle
    /\ PoolStart(ParseCalls)
    /\ abi_ok \in BOOLEAN
NextParse ==
    \/ \E f \in SourceFiles, readable \in BOOLEAN, parses \in BOOLEAN :
           ParseFile(f, readable, parses)
    \/ PoolAcquire("python")
    \/ \E parser \in pheld : PoolRelease(parser)
    \/ PoolShutdown
SpecParse == InitParse /\ [][NextParse]_vars

\* The step is a call of python_parse_file.
DidParse == pcalls' = pcalls - 1 /\ plast'.op = "parse_file"
\* C36: every python_parse_file that acquires a parser has released it when
\* it returns, with a tree or without, and the parsers in use are those in
\* use before the call; it fails to acquire only with all MAX_PARSERS parsers
\* in use, which it never finds when nobody else holds one; and when the
\* acquire fails the result has success = false and no entity.
C36_ParseReleasesParser ==
    [][DidParse =>
          /\ InUse(pool_state') = InUse(pool_state)
          /\ plast'.parser # 0 =>
                 /\ plast'.stage \in {"tree", "done"}
                 /\ plast'.parser \notin InUse(pool_state')
                 /\ plast'.parser \in {pool_state'.parsers[i] :
                                          i \in Slots(pool_state')}
          /\ plast'.stage \in {"tree", "done"} => plast'.parser # 0
          /\ plast'.stage = "acquire" =>
                 /\ pool_state.count = MAX_PARSERS
                 /\ AllInUse(pool_state)
                 /\ InUse(pool_state) # {}
                 /\ plast'.result # <<>>
                 /\ ~plast'.result[1].success
                 /\ plast'.result[1].service = <<>>
                 /\ plast'.result[1].endpoints = <<>>
                 /\ plast'.result[1].edges = <<>>]_vars
\* C36: python_parse_file got no tree from the parser it had acquired while
\* another user of the pool was holding a parser.
C36_Witness ==
    /\ plast.op = "parse_file"
    /\ plast.stage = "tree"
    /\ plast.parser # 0
    /\ plast.parser \notin pheld
    /\ pheld # {}
    /\ InUse(pool_state) = pheld
\* Reached: python_parse_file found every parser of the pool in use.
C36_AcquireFailed ==
    /\ plast.op = "parse_file"
    /\ plast.stage = "acquire"
    /\ Cardinality(pheld) = MAX_PARSERS

\* ---------------------------------------------------------------------------
\* The pool used by one thread (src/src/core/parser_pool.c).
\* ---------------------------------------------------------------------------

\* The step is a call of op on the pool.
DidPool(op) == pcalls' = pcalls - 1 /\ plast'.op = op
\* The slots that hold a parser and are marked in use.
MarkedInUse(p) ==
    {i \in DOMAIN p.parsers : p.parsers[i] # 0 /\ p.in_use[i]}
\* C37: an acquire never returns a parser that was acquired and not released
\* since; with a released parser in the pool an acquire returns a parser of
\* the pool and makes no new one; a release of NULL, of a pointer that is no
\* parser of the pool or of a parser that is not in use changes nothing; and
\* after a shutdown the pool is initialized again with no parser marked in
\* use.
C37_SequentialPool ==
    [][/\ DidPool("acquire") /\ plast'.ret # 0 =>
             /\ plast'.ret \notin pheld
             /\ plast'.ret \notin InUse(pool_state)
             /\ (pool_state.initialized /\ ~AllInUse(pool_state)) =>
                    /\ plast'.ret \in PoolParsers(pool_state)
                    /\ plast'.made = 0
                    /\ pool_state'.count = pool_state.count
       /\ (/\ DidPool("release")
           /\ plast'.parser \notin InUse(pool_state)) =>
             pool_state' = pool_state
       /\ (/\ DidPool("release")
           /\ plast'.parser \in InUse(pool_state)) =>
             InUse(pool_state') = InUse(pool_state) \ {plast'.parser}
       /\ (/\ DidPool("init") \/ DidPool("acquire")
           /\ ~pool_state.initialized
           /\ pool_state'.initialized) =>
             /\ MarkedInUse(pool_state') \subseteq
                    {i \in Slots(pool_state') :
                        pool_state'.parsers[i] = plast'.ret}
             /\ InUse(pool_state') = pheld']_vars
\* C37: parser_pool_init has set the pool up again after a shutdown that
\* found three parsers in use.
C37_Witness ==
    /\ plast.op = "init"
    /\ plast.made = 2
    /\ nextParser = 6
    /\ pool_state.initialized
    /\ pool_state.count = 2
    /\ pool_state.in_use[2]
    /\ InUse(pool_state) = {}

\* ---------------------------------------------------------------------------
\* The depth limit of a walk (src/src/core/walker.c).
\* ---------------------------------------------------------------------------

\* The separators of a path.
Slashes(path) == Cardinality({i \in 1..Len(path) : path[i] = "/"})
\* The depth of a path of the walk, the root it started on being at 0.
DepthOf(path) == Slashes(path) - Slashes(opened[1])
\* The step just taken read a directory, or a link to one that is followed,
\* which lies at or below the depth limit.
TooDeepNow ==
    /\ wlast'.step \in {"dir", "link"}
    /\ path_is_directory(wlast'.node)
    /\ wconfig.max_depth > 0
    /\ wlast'.depth + 1 >= wconfig.max_depth
\* The step just taken read a directory that opendir opens, with no limit set.
DirNoLimitNow ==
    /\ wlast'.step = "dir"
    /\ wconfig.max_depth = 0
    /\ wlast'.node \notin wenv.noopen
\* C38: with max_depth = D > 0 every directory opened is at a depth below D
\* and every file passed to the callback lies directly in one; a directory at
\* depth D or more is not opened and counts neither as visited nor as an
\* error, even one that opendir would fail on; with max_depth = 0 a
\* directory is opened whatever its depth.
C38_DepthLimit ==
    /\ [](wconfig.max_depth > 0 =>
             /\ \A i \in 1..Len(opened) : DepthOf(opened[i]) < wconfig.max_depth
             /\ \A i \in 1..Len(wstack) : wstack[i].depth < wconfig.max_depth
             /\ \A i \in 1..Len(visited) :
                    DepthOf(visited[i]) - 1 < wconfig.max_depth)
    /\ [](\A i \in 1..Len(wstack) : wstack[i].depth = DepthOf(wstack[i].dirpath))
    /\ [](g_stats.directories_visited = Len(opened))
    /\ [][TooDeepNow =>
             /\ g_stats' = g_stats
             /\ opened' = opened
             /\ visited' = visited
             /\ wstack' = EntryTaken]_vars
    /\ [][DirNoLimitNow =>
             /\ opened' = Append(opened, wlast'.path)
             /\ g_stats' = Bump(g_stats, "directories_visited")]_vars
\* C38: a walk with max_depth = 1 has returned without an error although
\* opendir fails on r/pkg: only the root was opened, and only the files of the
\* root were passed on.
C38_Witness ==
    /\ Walked
    /\ wconfig.max_depth = 1
    /\ wconfig.extensions = <<>>
    /\ wenv = [noopen |-> {5}, nolstat |-> {}]
    /\ opened = << <<"r">> >>
    /\ g_stats.directories_visited = 1
    /\ g_stats.errors = 0
    /\ Len(visited) = 2
\* Reached: a walk without a depth limit has opened r/pkg/sub, at depth 2.
C38_Unlimited ==
    /\ wconfig.max_depth = 0
    /\ \E i \in 1..Len(opened) : DepthOf(opened[i]) = 2

\* ---------------------------------------------------------------------------
\* The statistics of a walk (src/src/core/walker.c).
\* ---------------------------------------------------------------------------

\* The configurations of the walks after the first: no depth limit, no link
\* followed, every file or the "py" files.
RewalkConfigs ==
    {config \in WalkerConfigs :
        config.max_depth = 0 /\ ~config.follow_symlinks}
\* Nothing fails in the walks after the first.
NoFailure == [noopen |-> {}, nolstat |-> {}]
\* One walk after another, and calls with a NULL argument in between.
InitRewalk == InitWalk
NextRewalk ==
    \/ /\ wstate = "idle"
       /\ \E root \in RootPaths, config \in WalkerConfigs, env \in WalkerEnvs :
              WalkerWalk(root, config, env)
    \/ /\ wstate = "returned"
       /\ \E root \in RootPaths, config \in RewalkConfigs :
              WalkAgain(root, config, NoFailure)
    \/ WalkNullArgument
    \/ ReadEntry
    \/ CloseDir
SpecRewalk == InitRewalk /\ [][NextRewalk]_vars

\* The step is the start of a walker_walk with valid arguments.
WalkStartsNow ==
    /\ wstate \in {"idle", "returned"}
    /\ wlast'.step \in {"root", "no_root"}
    /\ wlast' # wlast \/ wstate' # wstate
\* C39: a walker_walk with valid arguments starts from statistics of zero
\* whatever an earlier walk left, and a call with a NULL argument leaves them;
\* files_matched is the number of calls of the callback in this walk and at
\* most files_scanned, directories_visited is the number of directories
\* opened, and files_ignored goes up by one exactly for every entry whose
\* name is on the built-in ignore list.
C39_StatsOfThisWalk ==
    /\ [](/\ g_stats.files_matched = Len(visited)
          /\ g_stats.files_matched <= g_stats.files_scanned
          /\ g_stats.directories_visited = Len(opened))
    /\ [][WalkStartsNow =>
             /\ visited' = <<>>
             /\ g_stats' =
                    IF wlast'.step = "no_root" THEN ZeroStats
                    ELSE IF opened' = <<>>
                    THEN [ZeroStats EXCEPT !.errors = 1]
                    ELSE [ZeroStats EXCEPT !.directories_visited = 1]]_vars
    /\ [][(wlast'.step = "null" /\ wlast.step # "null") =>
             g_stats' = g_stats /\ ~wret']_vars
    /\ [][(wstate = "walking" /\ wlast' # wlast) =>
             g_stats'.files_ignored =
                 g_stats.files_ignored
                 + (IF /\ wlast'.step \notin {"dot", "closedir"}
                       /\ NameIgnored(tree[wlast'.node].name)
                    THEN 1 ELSE 0)]_vars
\* C39: a second walker_walk has opened its root; the walk before it had left
\* statistics other than zero, and they are gone.
C39_Witness ==
    /\ wlast.step = "root"
    /\ wlast.found.files_matched = 3
    /\ wlast.found.files_ignored = 3
    /\ wlast.found.directories_visited = 3
    /\ wstate = "walking"
    /\ g_stats = [ZeroStats EXCEPT !.directories_visited = 1]
    /\ visited = <<>>

\* ---------------------------------------------------------------------------
\* The end of a walk (src/src/core/walker.c).
\* ---------------------------------------------------------------------------

\* The roots of the walks that meet the link r/.git/up, which points to the
\* directory it is in: the tree, and r/.git itself.
CycleRoots ==
    {[path |-> <<"r">>, node |-> 1],
     [path |-> <<"r", "/", ".", "g", "i", "t">>, node |-> 3]}
\* The configurations that follow no link or have a depth limit.
BoundedConfigs ==
    {config \in WalkerConfigs :
        ~config.follow_symlinks \/ config.max_depth > 0}
\* A walk under such a configuration; the loop of walk_recursive goes on
\* until readdir returns NULL, and closedir follows.
InitCycle == InitWalk
NextCycle ==
    \/ /\ wstate = "idle"
       /\ \E root \in CycleRoots, config \in BoundedConfigs, env \in WalkerEnvs :
              WalkerWalk(root, config, env)
    \/ ReadEntry
    \/ CloseDir
SpecCycle ==
    /\ InitCycle
    /\ [][NextCycle]_vars
    /\ WF_vars(ReadEntry)
    /\ WF_vars(CloseDir)

\* C40: a walk that follows no link, or that follows links under a depth
\* limit, returns, also on a tree where a link points back to a directory
\* above it; no path is opened twice, and under a limit every path opened is
\* at a depth below it.
C40_WalkTerminates ==
    /\ (wstate = "walking") ~> (wstate = "returned")
    /\ [](NoDuplicates(opened))
    /\ [](wconfig.max_depth > 0 =>
             \A i \in 1..Len(opened) : DepthOf(opened[i]) < wconfig.max_depth)
\* C40: a walk of r/.git that follows links to depth 3 has returned; it went
\* through the link up twice and passed c.py to the callback three times.
C40_Witness ==
    /\ Walked
    /\ wconfig.follow_symlinks
    /\ wconfig.max_depth = 3
    /\ wconfig.extensions = <<>>
    /\ wenv = [noopen |-> {}, nolstat |-> {}]
    /\ opened = << <<"r", "/", ".", "g", "i", "t">>,
                   <<"r", "/", ".", "g", "i", "t", "/", "u", "p">>,
                   <<"r", "/", ".", "g", "i", "t", "/", "u", "p", "/", "u", "p">> >>
    /\ Len(visited) = 3

====
